---- MODULE Spec2Model ----
(***************************************************************************)
(* Scribe: the record sync engine (js/sync.js) over the Local Store        *)
(* (js/db.js) and pluggable remote providers.                              *)
(*                                                                         *)
(* The JavaScript runs on one event loop: every `await` is a suspension    *)
(* point, and the code between two awaits runs without interruption.  An   *)
(* action of this model is therefore "the awaited operation takes effect   *)
(* and the continuation runs up to the next await".                        *)
(***************************************************************************)
EXTENDS Integers, Sequences, FiniteSets, TLC

(* ------------------------------ bounds -------------------------------- *)
MaxId == 2          \* idea ids are 1..MaxId
MaxTime == 2        \* instants (the wall clock, parsable updatedAt) are 1..MaxTime
MaxCalls == 2       \* sync()/syncToProvider() invocations that can be in flight
MaxLocalWrites == 2 \* saveIdea/deleteIdea calls made by the UI in one behaviour
MaxRemoteWrites == 1 \* writes another device makes to a provider's dataset
MaxListeners == 2   \* length of the listener list
MaxFaultyCalls == 2 \* calls of one step at which a listener can throw
MaxAttId == 2       \* attachment ids are 1..MaxAttId
MaxAttCalls == 2    \* attachment-engine invocations that can be in flight
MaxCycles == 2      \* successful cycles counted for a device after the last edit

Ids == 1..MaxId
Times == 1..MaxTime
Calls == 1..MaxCalls
ProviderNames == {"drive", "dropbox"}
Bodies == {"l", "r"}  \* the fields of an idea other than id/updatedAt/pendingSync

(* ------------------------------ values -------------------------------- *)
\* SyncStatus enum
IDLE == "idle"
SYNCING == "syncing"
ERROR == "error"
SyncStatus == {IDLE, SYNCING, ERROR}

NoIdea == [id |-> 0]            \* `undefined` where an idea was looked up
NoValue == -1                   \* `undefined` for a sync-meta value
InvalidDate == 0                \* an updatedAt string that Date cannot parse
NaN == -7

TimeStrings == Times \cup {InvalidDate}

Idea(i, t, p, b) == [id |-> i, updatedAt |-> t, pendingSync |-> p, body |-> b]
AllIdeas == {Idea(i, t, p, b) : i \in Ids, t \in TimeStrings, p \in BOOLEAN, b \in Bodies}

\* a variant that reads an unparsable string as the epoch
DateGetTimeEpoch(s) == s
\* new Date(s).getTime(): NaN for an unparsable string
DateGetTime(s) == IF s = InvalidDate THEN NaN ELSE s
\* JavaScript's > on numbers: false whenever an operand is NaN
JsGreater(a, b) == a # NaN /\ b # NaN /\ a > b

(* --------------------------- sequence helpers ------------------------- *)
RECURSIVE SeqIds(_)
SeqIds(s) == IF s = <<>> THEN {} ELSE {Head(s).id} \cup SeqIds(Tail(s))

Range(s) == {s[k] : k \in 1..Len(s)}

\* Map.get on an insertion-ordered Map kept as a sequence of its values
MapGet(m, k) == IF \E j \in 1..Len(m) : m[j].id = k
                THEN m[CHOOSE j \in 1..Len(m) : m[j].id = k]
                ELSE NoIdea
\* Map.set: an existing key keeps its position, a new key is appended
MapSet(m, v) == IF \E j \in 1..Len(m) : m[j].id = v.id
                THEN [j \in 1..Len(m) |-> IF m[j].id = v.id THEN v ELSE m[j]]
                ELSE Append(m, v)

RECURSIVE MapFromList(_, _)
MapFromList(m, s) == IF s = <<>> THEN m ELSE MapFromList(MapSet(m, Head(s)), Tail(s))

(* ------------------------------ mergeIdeas ---------------------------- *)
\* Variants of MergeStep that the merge properties must tell from it:
\* the remote copy wins a tie,
MergeStepRemoteWinsTies(acc, remoteIdea) ==
  LET localIdea == MapGet(acc.local, remoteIdea.id)
      localTime == DateGetTime(localIdea.updatedAt)
      remoteTime == DateGetTime(remoteIdea.updatedAt)
      adopted == [remoteIdea EXCEPT !.pendingSync = FALSE]
  IN IF localIdea = NoIdea
       THEN [acc EXCEPT !.local = MapSet(acc.local, adopted)]
     ELSE IF JsGreater(localTime, remoteTime)
       THEN [acc EXCEPT !.toUpload = Append(acc.toUpload, localIdea)]
     ELSE [acc EXCEPT !.local = MapSet(acc.local, adopted)]

\* a record new from remote keeps the pendingSync flag it came with,
MergeStepKeepsFlag(acc, remoteIdea) ==
  LET localIdea == MapGet(acc.local, remoteIdea.id)
      localTime == DateGetTime(localIdea.updatedAt)
      remoteTime == DateGetTime(remoteIdea.updatedAt)
      adopted == [remoteIdea EXCEPT !.pendingSync = FALSE]
  IN IF localIdea = NoIdea
       THEN [acc EXCEPT !.local = MapSet(acc.local, remoteIdea)]
     ELSE IF JsGreater(remoteTime, localTime)
       THEN [acc EXCEPT !.local = MapSet(acc.local, adopted)]
     ELSE IF JsGreater(localTime, remoteTime)
       THEN [acc EXCEPT !.toUpload = Append(acc.toUpload, localIdea)]
     ELSE acc

\* a local copy that is not older is queued for upload.
MergeStepTieUploads(acc, remoteIdea) ==
  LET localIdea == MapGet(acc.local, remoteIdea.id)
      localTime == DateGetTime(localIdea.updatedAt)
      remoteTime == DateGetTime(remoteIdea.updatedAt)
      adopted == [remoteIdea EXCEPT !.pendingSync = FALSE]
  IN IF localIdea = NoIdea
       THEN [acc EXCEPT !.local = MapSet(acc.local, adopted)]
     ELSE IF JsGreater(remoteTime, localTime)
       THEN [acc EXCEPT !.local = MapSet(acc.local, adopted)]
     ELSE [acc EXCEPT !.toUpload = Append(acc.toUpload, localIdea)]

\* one iteration of the `for (const remoteIdea of remote)` loop
MergeStep(acc, remoteIdea) ==
  LET localIdea == MapGet(acc.local, remoteIdea.id)
      localTime == DateGetTime(localIdea.updatedAt)
      remoteTime == DateGetTime(remoteIdea.updatedAt)
      adopted == [remoteIdea EXCEPT !.pendingSync = FALSE]
  IN IF localIdea = NoIdea
       THEN [acc EXCEPT !.local = MapSet(acc.local, adopted)]
     ELSE IF JsGreater(remoteTime, localTime)
       THEN [acc EXCEPT !.local = MapSet(acc.local, adopted)]
     ELSE IF JsGreater(localTime, remoteTime)
       THEN [acc EXCEPT !.toUpload = Append(acc.toUpload, localIdea)]
     ELSE acc

RECURSIVE MergeLoop(_, _)
MergeLoop(acc, remote) ==
  IF remote = <<>> THEN acc ELSE MergeLoop(MergeStep(acc, Head(remote)), Tail(remote))

mergeIdeas(local, remote, lastSync) ==
  MergeLoop([local |-> MapFromList(<<>>, local), toUpload |-> <<>>], remote)

(* ------------------------------ Local Store --------------------------- *)
\* store.getAll(): the records in ascending key order
RECURSIVE StoreGetAll(_, _)
StoreGetAll(store, i) ==
  IF i > MaxId THEN <<>>
  ELSE IF store[i] = NoIdea THEN StoreGetAll(store, i + 1)
  ELSE <<store[i]>> \o StoreGetAll(store, i + 1)

\* the comparator (a, b) => new Date(b.updatedAt) - new Date(a.updatedAt);
\* sort treats a NaN result as 0
SortsAfter(a, b) == JsGreater(DateGetTime(b.updatedAt), DateGetTime(a.updatedAt))

\* Array.prototype.sort is stable: x goes before the first element that
\* sorts after it
RECURSIVE SortInsert(_, _)
SortInsert(s, x) ==
  IF s = <<>> THEN <<x>>
  ELSE IF SortsAfter(Head(s), x) THEN <<x>> \o s
  ELSE <<Head(s)>> \o SortInsert(Tail(s), x)

RECURSIVE SortByUpdatedAtDesc(_)
SortByUpdatedAtDesc(s) ==
  IF s = <<>> THEN <<>>
  ELSE SortInsert(SortByUpdatedAtDesc(SubSeq(s, 1, Len(s) - 1)), s[Len(s)])

getAllIdeas(store) == SortByUpdatedAtDesc(StoreGetAll(store, 1))

\* index('pendingSync').getAll(true)
getPendingSyncIdeas(store) == SelectSeq(StoreGetAll(store, 1), LAMBDA r : r.pendingSync = TRUE)

\* a variant of bulkSaveIdeas that writes nothing
bulkSaveIdeasSkipped(store, list) == store

\* a variant of bulkSaveIdeas that clears the object store first
bulkSaveIdeasReplaces(store, list) ==
  [i \in Ids |-> IF i \in SeqIds(list) THEN CHOOSE r \in Range(list) : r.id = i ELSE NoIdea]

\* for (const idea of ideas) store.put(idea), in one readwrite transaction
RECURSIVE bulkSaveIdeas(_, _)
bulkSaveIdeas(store, list) ==
  IF list = <<>> THEN store
  ELSE bulkSaveIdeas([store EXCEPT ![Head(list).id] = Head(list)], Tail(list))

\* a variant of markSynced that leaves the flag as it is
markSyncedKeepsFlag(store, id) == store

markSynced(store, id) ==
  IF store[id] = NoIdea THEN store
  ELSE [store EXCEPT ![id] = [store[id] EXCEPT !.pendingSync = FALSE]]

(* ------------------------------- state -------------------------------- *)
VARIABLES
  syncStatus,     \* sync.js: let syncStatus
  syncProviders,  \* sync.js: the provider Map, as the sequence of its keys
  syncListeners,  \* sync.js: the listener array
  ideas,          \* db.js: object store 'ideas', id -> record
  syncMeta,       \* db.js: object store 'sync', key lastSync-<name> -> value
  remote,         \* each provider's stored dataset {ideas, lastModified}
  clock,          \* what new Date() returns
  online,         \* navigator.onLine
  calls,          \* the invocations of sync()/syncToProvider() in flight
  settled,        \* the invocations the latest step settled, with what their callers get
  delivered,      \* the listener calls <<listener, status>> the latest step made, in order
  assigned,       \* the values the latest step assigned to syncStatus, in order
  budget,         \* how many environment writes were made
  mergeLocal,     \* mergeIdeas on its own: the arguments
  mergeRemote,
  mergeOut,       \* and what it returned
  devices,        \* two devices on one provider: each one's Local Store and cycle
  attachmentProvider, \* attachment-sync.js: let provider
  attMeta,        \* the attachment metadata updateAttachment has persisted, id -> record
  blobs,          \* db.js: object store 'attachments', id -> blob
  remoteBlobs,    \* the provider's attachments folder, id -> blob
  attCalls,       \* the invocations of the attachment engine in flight
  attSettled      \* the invocations the latest step settled, with what their callers get

vars == <<syncStatus, syncProviders, syncListeners, ideas, syncMeta, remote,
          clock, online, calls, settled, delivered, assigned, budget,
          mergeLocal, mergeRemote, mergeOut, devices,
          attachmentProvider, attMeta, blobs, remoteBlobs, attCalls, attSettled>>

pureVars == <<mergeLocal, mergeRemote, mergeOut, devices>>
attVars == <<attachmentProvider, attMeta, blobs, remoteBlobs, attCalls, attSettled>>

\* A listener is a function: see CallListener.
Listeners == {"ui", "again"}
\* What the "ui" listener does at its next calls: TRUE, it throws.  It does
\* not throw at later calls.
NoWhims == <<>>
Whims == IF "ui" \in Range(syncListeners) THEN [1..MaxFaultyCalls -> BOOLEAN] ELSE {NoWhims}
\* err.message of what a listener throws
ListenerError == "listener failed"

NoProvider == "none"   \* syncToProvider(undefined)
NoArg == <<"none", NoProvider>>
NoPayload == [ideas |-> <<>>, lastModified |-> 0]
NoResult == [success |-> FALSE, error |-> "", merged |-> 0]
EmptyMerge == [local |-> <<>>, toUpload |-> <<>>]

InProgress == [success |-> FALSE, error |-> "Sync already in progress", merged |-> 0]
NotFound == [success |-> FALSE, error |-> "Provider 'undefined' not found", merged |-> 0]
\* err.message of a failed Local Store or provider operation
OpFailed == "operation failed"
Failure(msg) == [success |-> FALSE, error |-> msg, merged |-> 0]
Success(n) == [success |-> TRUE, error |-> "", merged |-> n]

\* A call slot.  kind: free | sync | syncToProvider.  pc names the operation
\* the call is awaiting, or returned/threw once its promise has settled.
\* oplog (the operations of the cycle that have completed) and
\* pendingAtStart (the pendingSync records the Local Store held when the
\* cycle set the status to syncing) are history, kept for the properties; so
\* is pendingAtCall (the same when sync() was called).
FreeCall ==
  [kind |-> "free", arg |-> NoArg, pc |-> "free", provider |-> NoProvider, current |-> NoProvider,
   queue |-> <<>>, results |-> <<>>,
   localIdeas |-> <<>>, pendingIdeas |-> <<>>, lastSync |-> NoValue,
   remoteIdeas |-> <<>>, merged |-> EmptyMerge, payload |-> NoPayload,
   metaValue |-> 0, idx |-> 0, oplog |-> <<>>, result |-> NoResult,
   pendingAtStart |-> <<>>, pendingAtCall |-> <<>>]

InCycle(cr) == cr.pc \in {"getAllIdeas", "getPendingSyncIdeas", "getSyncMeta", "fetch",
                          "bulkSaveIdeas", "push", "markSynced", "setSyncMeta"}
Settled(cr) == cr.pc \in {"returned", "threw"}

\* the locals of a finished cycle are dead
ClearLocals(cr) ==
  [cr EXCEPT !.localIdeas = <<>>, !.pendingIdeas = <<>>, !.lastSync = NoValue,
             !.remoteIdeas = <<>>, !.merged = EmptyMerge, !.payload = NoPayload,
             !.metaValue = 0, !.idx = 0, !.oplog = <<>>, !.provider = NoProvider, !.current = NoProvider,
             !.pendingAtStart = <<>>]

(* ------------------------------ the engine ---------------------------- *)
\* What the code running in a step has done so far: the status, the call
\* slots, the listener calls made, the values assigned to syncStatus and the
\* invocations that settled, each in order.
World(whims) ==
  [status |-> syncStatus, calls |-> calls, log |-> <<>>, trace |-> <<>>, done |-> <<>>,
   whims |-> whims]

SetStatus(w, status) == [w EXCEPT !.status = status, !.trace = Append(@, status)]

\* what the caller of a settled invocation gets
Settlement(c, cr) ==
  [call |-> c, kind |-> cr.kind, arg |-> cr.arg, pc |-> cr.pc,
   result |-> cr.result, results |-> cr.results]

\* the promise of invocation c settles; the invocation leaves its slot
Settle(c, cr, w) ==
  [w EXCEPT !.calls[c] = FreeCall, !.done = Append(@, Settlement(c, cr))]

\* an exception leaves the async function: its promise rejects
Threw(c, w) ==
  Settle(c, [ClearLocals(w.calls[c]) EXCEPT !.pc = "threw", !.queue = <<>>], w)

\* a new invocation takes the first free slot (0: none is free)
FreeSlot(cs) ==
  IF \E c \in Calls : cs[c].kind = "free"
    THEN CHOOSE c \in Calls : cs[c].kind = "free" /\ \A d \in Calls : cs[d].kind = "free" => c <= d
    ELSE 0

\* what a caller can pass to syncToProvider: a provider object (registered or
\* not), nothing at all, or a name
ProviderArgs == {<<"object", n>> : n \in ProviderNames \cup {NoProvider}}
                  \cup {<<"string", n>> : n \in ProviderNames}

RECURSIVE SyncLoop(_, _)

\* a variant of sync() that assigns the status before it looks at the
\* providers
InvokeSyncSetsStatus(c, w) ==
  SyncLoop(c, [SetStatus(w, IDLE) EXCEPT !.calls[c] = [FreeCall EXCEPT !.kind = "sync", !.pc = "sync",
                                                                       !.queue = syncProviders,
                                                                       !.pendingAtCall = getPendingSyncIdeas(ideas)]])

\* sync(), lines 84-91, then the loop
InvokeSync(c, w) ==
  SyncLoop(c, [w EXCEPT !.calls[c] = [FreeCall EXCEPT !.kind = "sync", !.pc = "sync",
                                                      !.queue = syncProviders,
                                                      !.pendingAtCall = getPendingSyncIdeas(ideas)]])

ListenerThrows(l, w) == l = "ui" /\ w.whims # <<>> /\ Head(w.whims)

\* One listener is called with the status.  "ui" takes note of it, and may
\* throw; "again" starts a sync() whenever it is told that no cycle runs,
\* and does not wait for it.
CallListener(l, w) ==
  LET told == [w EXCEPT !.log = Append(@, <<l, w.status>>)]
  IN IF l = "again" /\ w.status # SYNCING /\ FreeSlot(w.calls) # 0
       THEN InvokeSync(FreeSlot(w.calls), told)
     ELSE IF l = "ui" /\ w.whims # <<>>
       THEN [told EXCEPT !.whims = Tail(@)]
     ELSE told

\* line 36: syncListeners.forEach((l) => l(syncStatus)) stops at the first
\* listener that throws
RECURSIVE Deliver(_, _)
Deliver(ls, w) ==
  IF ls = <<>> THEN [threw |-> FALSE, w |-> w]
  ELSE IF ListenerThrows(Head(ls), w) THEN [threw |-> TRUE, w |-> CallListener(Head(ls), w)]
  ELSE Deliver(Tail(ls), CallListener(Head(ls), w))

notifyStatusChange(w) == Deliver(syncListeners, w)

\* lines 122-125: status := syncing, notify, provider.name, and into the try
EnterCycle(c, provider, w) ==
  LET n == notifyStatusChange(SetStatus(w, SYNCING))
  IN IF n.threw \/ provider = NoProvider
       THEN Threw(c, n.w)
       ELSE [n.w EXCEPT !.calls[c].pc = "getAllIdeas", !.calls[c].provider = provider,
                        !.calls[c].pendingAtStart = getPendingSyncIdeas(ideas)]

\* syncToProvider returns res: to its caller, or into the loop of sync()
\* (lines 93-94)
Return(c, res, w) ==
  LET cr == w.calls[c]
  IN IF cr.kind = "sync"
       THEN SyncLoop(c, [w EXCEPT !.calls[c] =
                           [ClearLocals(cr) EXCEPT
                              !.pc = "sync",
                              !.results = Append(cr.results,
                                 [provider |-> cr.current, success |-> res.success,
                                  error |-> res.error])]])
       ELSE Settle(c, [ClearLocals(cr) EXCEPT !.pc = "returned", !.result = res], w)

\* a variant of syncToProvider without the check of lines 117-120
EnterSyncToProviderUnguarded(c, arg, w) ==
  IF arg[1] = "string" /\ arg[2] \notin Range(syncProviders)
    THEN Return(c, NotFound, w)
  ELSE EnterCycle(c, arg[2], w)

\* a variant of syncToProvider that goes on with whatever the lookup of
\* line 111 gave
EnterSyncToProviderUnchecked(c, arg, w) ==
  IF w.status = SYNCING
    THEN Return(c, InProgress, w)
  ELSE EnterCycle(c, IF arg[2] \in Range(syncProviders) THEN arg[2] ELSE NoProvider, w)

\* syncToProvider(provider), lines 108-125, up to its first suspension
EnterSyncToProvider(c, arg, w) ==
  IF arg[1] = "string" /\ arg[2] \notin Range(syncProviders)
    THEN Return(c, NotFound, w)
  ELSE IF w.status = SYNCING
    THEN Return(c, InProgress, w)
  ELSE EnterCycle(c, arg[2], w)

\* sync(), lines 92-101: the loop over the providers snapshot, from the
\* point where the previous syncToProvider has returned
SyncLoop(c, w) ==
  LET cr == w.calls[c]
  IN IF cr.queue = <<>>
       THEN Settle(c, [cr EXCEPT !.pc = "returned",
                                 !.result = [success |-> \A k \in 1..Len(cr.results) : cr.results[k].success,
                                             error |-> "", merged |-> 0]],
                   w)
       ELSE EnterSyncToProvider(c, <<"object", Head(cr.queue)>>,
                                [w EXCEPT !.calls[c].queue = Tail(cr.queue),
                                          !.calls[c].current = Head(cr.queue)])

\* lines 162-167: the catch block
Catch(c, msg, w) ==
  LET n == notifyStatusChange(SetStatus(w, ERROR))
  IN IF n.threw THEN Threw(c, n.w)
     ELSE Return(c, Failure(msg), n.w)

\* lines 158-161, inside the try
Succeed(c, w) ==
  LET n == notifyStatusChange(SetStatus(w, IDLE))
  IN IF n.threw THEN Catch(c, ListenerError, n.w)
     ELSE Return(c, Success(Len(w.calls[c].merged.local)), n.w)

\* the step's effect on the engine
Apply(w) ==
  /\ syncStatus' = w.status
  /\ calls' = w.calls
  /\ settled' = w.done
  /\ delivered' = w.log
  /\ assigned' = w.trace
  /\ UNCHANGED <<pureVars, attVars>>

\* a step of the environment settles no invocation, calls no listener and
\* leaves the status alone
Quiet ==
  /\ settled' = <<>>
  /\ delivered' = <<>>
  /\ assigned' = <<>>
  /\ UNCHANGED <<syncStatus, calls, pureVars, attVars>>

\* call c goes on as cr
Go(c, cr) == [World(NoWhims) EXCEPT !.calls[c] = cr]

\* the operation has completed
Log(cr, op) == [cr EXCEPT !.oplog = Append(cr.oplog, op)]

(* ------------------------------ invocations --------------------------- *)
Spend(what) == budget' = [budget EXCEPT ![what] = @ + 1]

envVars == <<syncProviders, syncListeners, clock, online>>
dataVars == <<ideas, syncMeta, remote>>

\* a caller invokes sync()
CallSync(c) ==
  /\ c = FreeSlot(calls)
  /\ \E o \in Whims : Apply(InvokeSync(c, World(o)))
  /\ UNCHANGED <<envVars, dataVars, budget>>

\* a caller invokes syncToProvider(arg)
CallSyncToProvider(c, arg) ==
  /\ c = FreeSlot(calls)
  /\ \E o \in Whims :
       Apply(EnterSyncToProvider(c, arg,
               [World(o) EXCEPT !.calls[c] = [FreeCall EXCEPT !.kind = "syncToProvider",
                                                              !.arg = arg, !.pc = "entry"]]))
  /\ UNCHANGED <<envVars, dataVars, budget>>

(* ------------------------- the cycle, lines 127-167 -------------------- *)
\* Every Local Store and provider operation may fail (a storage-layer or
\* transport error); a failed operation has changed nothing.

\* line 129
GetAllIdeas(c) ==
  /\ calls[c].pc = "getAllIdeas"
  /\ \E ok \in BOOLEAN :
       IF ok
         THEN Apply(Go(c, Log([calls[c] EXCEPT !.localIdeas = getAllIdeas(ideas),
                                                    !.pc = "getPendingSyncIdeas"], "getAllIdeas")))
         ELSE \E o \in Whims : Apply(Catch(c, OpFailed, World(o)))
  /\ UNCHANGED <<envVars, dataVars, budget>>

\* line 130.  (IndexedDB itself refuses a boolean as an index key with a
\* DataError; that outcome is the failing branch.)
GetPendingSyncIdeas(c) ==
  /\ calls[c].pc = "getPendingSyncIdeas"
  /\ \E ok \in BOOLEAN :
       IF ok
         THEN Apply(Go(c, Log([calls[c] EXCEPT !.pendingIdeas = getPendingSyncIdeas(ideas),
                                                    !.pc = "getSyncMeta"], "getPendingSyncIdeas")))
         ELSE \E o \in Whims : Apply(Catch(c, OpFailed, World(o)))
  /\ UNCHANGED <<envVars, dataVars, budget>>

\* line 131
GetSyncMeta(c) ==
  /\ calls[c].pc = "getSyncMeta"
  /\ \E ok \in BOOLEAN :
       IF ok
         THEN Apply(Go(c, Log([calls[c] EXCEPT !.lastSync = syncMeta[calls[c].provider],
                                                    !.pc = "fetch"], "getSyncMeta")))
         ELSE \E o \in Whims : Apply(Catch(c, OpFailed, World(o)))
  /\ UNCHANGED <<envVars, dataVars, budget>>

\* lines 134-137: provider.fetch() resolves, then the merge; line 140 calls
\* bulkSaveIdeas
Fetch(c) ==
  /\ calls[c].pc = "fetch"
  /\ \E ok \in BOOLEAN :
       IF ok
         THEN LET cr == calls[c]
                  fetched == remote[cr.provider].ideas
              IN Apply(Go(c, Log(Log([cr EXCEPT !.remoteIdeas = fetched,
                                                     !.merged = mergeIdeas(cr.localIdeas, fetched, cr.lastSync),
                                                     !.pc = "bulkSaveIdeas"], "fetch"), "merge")))
         ELSE \E o \in Whims : Apply(Catch(c, OpFailed, World(o)))
  /\ UNCHANGED <<envVars, dataVars, budget>>

\* a variant of the condition of line 143 that looks at the upload list only
ShouldPushUploadsOnly(cr) == Len(cr.merged.toUpload) > 0

\* line 143
ShouldPush(cr) == Len(cr.merged.toUpload) > 0 \/ Len(cr.pendingIdeas) > 0

\* a variant of lines 155-156 that writes back the value read at line 131
ToSetSyncMetaReadBack(cr) == [cr EXCEPT !.metaValue = cr.lastSync, !.pc = "setSyncMeta"]

\* lines 155-156: setSyncMeta is called with the time of the call
ToSetSyncMeta(cr) == [cr EXCEPT !.metaValue = clock, !.pc = "setSyncMeta"]

\* a variant of the push that sends the upload list only
ToPushDelta(cr) ==
  [cr EXCEPT !.payload = [ideas |-> cr.merged.toUpload, lastModified |-> clock], !.pc = "push"]

\* lines 143-147: provider.push is called with the merged set and the time
\* of the call
ToPush(cr) ==
  [cr EXCEPT !.payload = [ideas |-> cr.merged.local, lastModified |-> clock], !.pc = "push"]

AfterBulkSave(cr) == IF ShouldPush(cr) THEN ToPush(cr) ELSE ToSetSyncMeta(cr)

\* line 140: the merged set is written; lines 143-156 run up to the next await
BulkSaveIdeas(c) ==
  /\ calls[c].pc = "bulkSaveIdeas"
  /\ \E ok \in BOOLEAN :
       IF ok
         THEN /\ ideas' = bulkSaveIdeas(ideas, calls[c].merged.local)
              /\ Apply(Go(c, AfterBulkSave(Log(calls[c], "bulkSaveIdeas"))))
         ELSE /\ ideas' = ideas
              /\ \E o \in Whims : Apply(Catch(c, OpFailed, World(o)))
  /\ UNCHANGED <<envVars, syncMeta, remote, budget>>

\* lines 150-152: the loop over pendingIdeas
AfterPush(cr) ==
  IF Len(cr.pendingIdeas) > 0 THEN [cr EXCEPT !.pc = "markSynced", !.idx = 1]
  ELSE ToSetSyncMeta(cr)

\* lines 144-147: the provider stores the pushed dataset
Push(c) ==
  /\ calls[c].pc = "push"
  /\ \E ok \in BOOLEAN :
       IF ok
         THEN /\ remote' = [remote EXCEPT ![calls[c].provider] = calls[c].payload]
              /\ Apply(Go(c, AfterPush(Log(calls[c], "push"))))
         ELSE /\ remote' = remote
              /\ \E o \in Whims : Apply(Catch(c, OpFailed, World(o)))
  /\ UNCHANGED <<envVars, ideas, syncMeta, budget>>

AfterMarkSynced(cr) ==
  IF cr.idx < Len(cr.pendingIdeas) THEN [cr EXCEPT !.idx = cr.idx + 1]
  ELSE ToSetSyncMeta(cr)

\* line 151: one markSynced(idea.id)
MarkSynced(c) ==
  /\ calls[c].pc = "markSynced"
  /\ \E ok \in BOOLEAN :
       IF ok
         THEN /\ ideas' = markSynced(ideas, calls[c].pendingIdeas[calls[c].idx].id)
              /\ Apply(Go(c, AfterMarkSynced(Log(calls[c], "markSynced"))))
         ELSE /\ ideas' = ideas
              /\ \E o \in Whims : Apply(Catch(c, OpFailed, World(o)))
  /\ UNCHANGED <<envVars, syncMeta, remote, budget>>

\* line 156, then lines 158-161
SetSyncMeta(c) ==
  /\ calls[c].pc = "setSyncMeta"
  /\ \E ok \in BOOLEAN :
       IF ok
         THEN /\ syncMeta' = [syncMeta EXCEPT ![calls[c].provider] = calls[c].metaValue]
              /\ \E o \in Whims :
                   Apply(Succeed(c, [World(o) EXCEPT !.calls[c] = Log(calls[c], "setSyncMeta")]))
         ELSE /\ syncMeta' = syncMeta
              /\ \E o \in Whims : Apply(Catch(c, OpFailed, World(o)))
  /\ UNCHANGED <<envVars, ideas, remote, budget>>

(* ------------------------------ environment --------------------------- *)

\* lines 54-58
RegisterProvider(n) ==
  /\ n \notin Range(syncProviders)
  /\ syncProviders' = Append(syncProviders, n)
  /\ UNCHANGED <<syncListeners, clock, online, dataVars, budget>>
  /\ Quiet

\* lines 63-65
UnregisterProvider(n) ==
  /\ n \in Range(syncProviders)
  /\ syncProviders' = SelectSeq(syncProviders, LAMBDA x : x # n)
  /\ UNCHANGED <<syncListeners, clock, online, dataVars, budget>>
  /\ Quiet

\* a provider object that has fetch and push but no name property
Nameless == "nameless"
ProviderObjects == ProviderNames \cup {Nameless}

\* lines 54-58 on any provider object: Map.set under provider.name, if the
\* object has one
registerProvider(providers, p) ==
  IF p # NoProvider /\ p \in ProviderNames /\ p \notin Range(providers)
    THEN Append(providers, p)
    ELSE providers

\* lines 43-49: the legacy setProvider(provider); null clears the Map
SetProvider(p) ==
  /\ syncProviders' = IF p # NoProvider THEN registerProvider(syncProviders, p) ELSE <<>>
  /\ UNCHANGED <<syncListeners, clock, online, dataVars, budget>>
  /\ Quiet

\* the runtime goes online or offline
SetOnline(b) ==
  /\ online' = b
  /\ UNCHANGED <<syncProviders, syncListeners, clock, dataVars, budget>>
  /\ Quiet

\* a variant of shouldSync that does not look at the network
shouldSyncAnyNetwork == Len(syncProviders) > 0

\* lines 226-228
shouldSync == online /\ Len(syncProviders) > 0

\* what the caller of a synchronous function gets
Answer(fn, value) ==
  [call |-> 0, kind |-> fn, arg |-> NoArg, pc |-> "returned", result |-> value, results |-> <<>>]

\* a caller invokes shouldSync()
ShouldSync ==
  /\ settled' = <<Answer("shouldSync", shouldSync)>>
  /\ delivered' = <<>>
  /\ assigned' = <<>>
  /\ UNCHANGED <<syncStatus, calls, pureVars, attVars, envVars, dataVars, budget>>

\* lines 25-26
OnSyncStatusChange(l) ==
  /\ Len(syncListeners) < MaxListeners
  /\ l \notin Range(syncListeners)
  /\ syncListeners' = Append(syncListeners, l)
  /\ UNCHANGED <<syncProviders, clock, online, dataVars, budget>>
  /\ Quiet

\* lines 27-29: the handle onSyncStatusChange returned
Unsubscribe(l) ==
  /\ l \in Range(syncListeners)
  /\ syncListeners' = SelectSeq(syncListeners, LAMBDA x : x # l)
  /\ UNCHANGED <<syncProviders, clock, online, dataVars, budget>>
  /\ Quiet

Tick ==
  /\ clock < MaxTime
  /\ clock' = clock + 1
  /\ UNCHANGED <<syncProviders, syncListeners, online, dataVars, budget>>
  /\ Quiet

\* db.js saveIdea, called by the form with updatedAt = now, pendingSync = true
SaveIdea(i) ==
  /\ budget.localWrites < MaxLocalWrites
  /\ Spend("localWrites")
  /\ ideas' = [ideas EXCEPT ![i] = Idea(i, clock, TRUE, "l")]
  /\ UNCHANGED <<envVars, syncMeta, remote>>
  /\ Quiet

\* db.js deleteIdea
DeleteIdea(i) ==
  /\ budget.localWrites < MaxLocalWrites
  /\ ideas[i] # NoIdea
  /\ Spend("localWrites")
  /\ ideas' = [ideas EXCEPT ![i] = NoIdea]
  /\ UNCHANGED <<envVars, syncMeta, remote>>
  /\ Quiet

\* another device pushes a dataset in which record r is new or changed
RemoteWrite(n, r) ==
  /\ budget.remoteWrites < MaxRemoteWrites
  /\ Spend("remoteWrites")
  /\ remote' = [remote EXCEPT ![n] = [ideas |-> MapSet(remote[n].ideas, r),
                                      lastModified |-> r.updatedAt]]
  /\ UNCHANGED <<envVars, ideas, syncMeta>>
  /\ Quiet

RemoteIdeas == {Idea(i, t, p, "r") : i \in Ids, t \in Times, p \in BOOLEAN}

(* ------------------------- attachment-sync.js ------------------------- *)
AttIds == 1..MaxAttId
AttCalls == 1..MaxAttCalls

\* JavaScript values: undefined, null, and objects as records of their
\* properties
Undefined == [undefined |-> TRUE]
Null == [null |-> TRUE]
Truthy(v) == v # Undefined /\ v # Null
\* v.f
Prop(v, f) == IF f \in DOMAIN v THEN v[f] ELSE Undefined

\* a Blob, by its content; it has no property named blob
Blob(d) == [data |-> d]
LocalBlob == Blob("local")
RemoteBlob == Blob("remote")

\* lines 12-17
AttachmentSyncStatus == [LOCAL |-> "local", SYNCING |-> "syncing", SYNCED |-> "synced", ERROR |-> "error"]

\* file names, by attachment id
Filenames == <<"a.png", "b.png", "c.png", "d.png">>
Filename(i) == Filenames[i]
\* the identifier a provider gives the blob of attachment i (dropbox.js: its path)
RemoteId(i) == [path |-> i]
RemoteIdOwner(r) == IF \E i \in AttIds : r = RemoteId(i) THEN CHOOSE i \in AttIds : r = RemoteId(i) ELSE 0

\* attachment metadata
Attachment(i, r, st) == [id |-> i, filename |-> Filename(i), remoteId |-> r, syncStatus |-> st]
\* the metadata objects a caller passes
AttachmentArgs ==
  UNION {{Attachment(i, r, st) : r \in {Null, RemoteId(i)},
                                 st \in {AttachmentSyncStatus.LOCAL, AttachmentSyncStatus.SYNCED}} :
         i \in AttIds}

\* lines 53-56, 69-73, 79-83: { ...attachment, ... }
syncingAttachment(a) == [a EXCEPT !.syncStatus = AttachmentSyncStatus.SYNCING]
syncedAttachment(a, r) == [a EXCEPT !.remoteId = r, !.syncStatus = AttachmentSyncStatus.SYNCED]
errorAttachment(a, msg) ==
  [f \in DOMAIN a \cup {"syncError"} |->
     IF f = "syncError" THEN msg
     ELSE IF f = "syncStatus" THEN AttachmentSyncStatus.ERROR
     ELSE a[f]]

\* a provider object, by the attachment methods it has
AttProvider(u, d, x, l) ==
  [uploadAttachment |-> u, downloadAttachment |-> d, deleteAttachment |-> x, listAttachments |-> l]
FullProvider == AttProvider(TRUE, TRUE, TRUE, TRUE)
AttProviders ==
  {FullProvider, AttProvider(FALSE, TRUE, TRUE, TRUE), AttProvider(TRUE, FALSE, TRUE, TRUE),
   AttProvider(TRUE, TRUE, FALSE, TRUE), AttProvider(TRUE, TRUE, TRUE, FALSE)}

NoProviderMsg == "No sync provider configured"
NoUploadMsg == "Provider does not support attachment upload"
NoDownloadMsg == "Provider does not support attachment download"
NoRemoteIdMsg == "Attachment has no remote ID"
\* err.message of a failed provider call and of a failed Local Store operation
ProviderFailed == "provider failed"
StoreFailed == "store failed"

\* new Error(msg), and any error with that message
AttError(msg) == [message |-> msg]

\* lines 154-158
ZeroResult == [uploaded |-> 0, downloaded |-> 0, errors |-> <<>>]

\* updateAttachment(attachment) of the Local Store: the metadata persisted
\* for the attachment's id is replaced by the object passed
updateAttachment(meta, a) == [meta EXCEPT ![a.id] = a]

\* getAttachment as the tests of attachment-sync.js mock it: the stored
\* record {id, blob}
getAttachmentRecord(store, id) ==
  IF store[id] = Undefined THEN Undefined ELSE [id |-> id, blob |-> store[id]]

\* db.js getAttachment: result?.blob of the stored record {id, blob}
getAttachment(store, id) ==
  LET result == IF store[id] = Undefined THEN Undefined ELSE [id |-> id, blob |-> store[id]]
  IN IF result = Undefined THEN Undefined ELSE result.blob

\* local && local.blob (lines 110, 165, 231)
HasLocalBlob(local) == Truthy(local) /\ Truthy(Prop(local, "blob"))

\* provider.listAttachments(): one entry per blob of the folder
RECURSIVE Listing(_, _)
Listing(folder, i) ==
  IF i > MaxAttId THEN <<>>
  ELSE (IF folder[i] = Undefined THEN <<>>
        ELSE <<[id |-> i, remoteId |-> RemoteId(i), filename |-> Filename(i)]>>)
       \o Listing(folder, i + 1)

\* An invocation slot.  kind: free | uploadAttachment | downloadAttachment |
\* deleteRemoteAttachment | syncAttachments | reconcileAttachments.  pc names
\* the operation the invocation is awaiting.  inner is the function a batch
\* is inside of; io is the Local Store and provider calls the invocation has
\* made, in order (history, kept for the properties).
AttFree ==
  [kind |-> "free", pc |-> "free", arg |-> Null, attachment |-> Null, blob |-> Undefined,
   list |-> <<>>, idx |-> 0, phase |-> "", inner |-> "", remoteList |-> <<>>, listed |-> FALSE,
   result |-> ZeroResult, err |-> "", value |-> Undefined, io |-> <<>>]

Batches == {"syncAttachments", "reconcileAttachments"}
AttSettledPc(cr) == cr.pc \in {"returned", "threw"}

Calling(cr, op, pc) == [cr EXCEPT !.pc = pc, !.io = Append(@, op)]

RECURSIVE AttLoop(_)

\* a variant in which a batch has no catch around its items
ThrownEscapes(cr, msg) == [cr EXCEPT !.pc = "threw", !.value = AttError(msg)]

\* the function the invocation is in throws msg: to the caller, or into the
\* catch of the batch around it (lines 177-182, 235-240, 250-255)
Thrown(cr, msg) ==
  IF cr.kind \in Batches
    THEN AttLoop([cr EXCEPT !.result.errors =
                     Append(@, [attachment |-> cr.attachment.filename, error |-> msg])])
    ELSE [cr EXCEPT !.pc = "threw", !.value = AttError(msg)]

\* the function the invocation is in returns v: to the caller, or to the
\* batch, which counts it (lines 167, 174, 233, 249)
Returned(cr, v) ==
  IF cr.kind \in Batches
    THEN AttLoop(IF cr.inner = "uploadAttachment"
                   THEN [cr EXCEPT !.result.uploaded = @ + 1]
                   ELSE [cr EXCEPT !.result.downloaded = @ + 1])
    ELSE [cr EXCEPT !.pc = "returned", !.value = v]

\* a variant of uploadAttachment that calls the provider straight away
EnterUploadUnmarked(cr, a, b) ==
  LET at == [cr EXCEPT !.attachment = a, !.blob = b, !.inner = "uploadAttachment"]
  IN IF attachmentProvider = Null THEN Thrown(at, NoProviderMsg)
     ELSE IF ~attachmentProvider.uploadAttachment THEN Thrown(at, NoUploadMsg)
     ELSE Calling(at, <<"provider.uploadAttachment", a.id>>, "provider.uploadAttachment")

\* a variant of uploadAttachment that marks before it checks the provider
EnterUploadUnchecked(cr, a, b) ==
  LET at == [cr EXCEPT !.attachment = a, !.blob = b, !.inner = "uploadAttachment"]
  IN Calling(at, <<"updateAttachment", syncingAttachment(a)>>, "updateAttachment syncing")

\* uploadAttachment(attachment, blob), lines 43-57, up to its first suspension
EnterUpload(cr, a, b) ==
  LET at == [cr EXCEPT !.attachment = a, !.blob = b, !.inner = "uploadAttachment"]
  IN IF attachmentProvider = Null THEN Thrown(at, NoProviderMsg)
     ELSE IF ~attachmentProvider.uploadAttachment THEN Thrown(at, NoUploadMsg)
     ELSE Calling(at, <<"updateAttachment", syncingAttachment(a)>>, "updateAttachment syncing")

\* downloadAttachment(attachment), lines 95-109, up to its first suspension
EnterDownload(cr, a) ==
  LET at == [cr EXCEPT !.attachment = a, !.inner = "downloadAttachment"]
  IN IF attachmentProvider = Null THEN Thrown(at, NoProviderMsg)
     ELSE IF ~attachmentProvider.downloadAttachment THEN Thrown(at, NoDownloadMsg)
     ELSE IF ~Truthy(Prop(a, "remoteId")) THEN Thrown(at, NoRemoteIdMsg)
     ELSE Calling(at, <<"getAttachment", a.id>>, "getAttachment")

\* a variant of deleteRemoteAttachment that does not look at the remoteId
EnterDeleteAnyway(cr, a) ==
  LET at == [cr EXCEPT !.attachment = a, !.inner = "deleteRemoteAttachment"]
  IN IF attachmentProvider = Null THEN Returned(at, Undefined)
     ELSE IF ~attachmentProvider.deleteAttachment THEN Returned(at, Undefined)
     ELSE Calling(at, <<"provider.deleteAttachment", a.remoteId>>, "provider.deleteAttachment")

\* deleteRemoteAttachment(attachment), lines 128-141
EnterDelete(cr, a) ==
  LET at == [cr EXCEPT !.attachment = a, !.inner = "deleteRemoteAttachment"]
  IN IF attachmentProvider = Null THEN Returned(at, Undefined)
     ELSE IF ~attachmentProvider.deleteAttachment THEN Returned(at, Undefined)
     ELSE IF ~Truthy(Prop(a, "remoteId")) THEN Returned(at, Undefined)
     ELSE Calling(at, <<"provider.deleteAttachment", a.remoteId>>, "provider.deleteAttachment")

ListIds(list) == {list[k].id : k \in 1..Len(list)}

\* The loops of syncAttachments (lines 160-183) and of reconcileAttachments
\* (lines 227-242, then 245-257), from the point where the previous item is
\* done, up to the next suspension
AttLoop(cr) ==
  IF cr.kind = "syncAttachments" \/ cr.phase = "upload"
    THEN IF cr.idx > Len(cr.list)
           THEN IF cr.kind = "syncAttachments"
                  THEN [cr EXCEPT !.pc = "returned", !.value = cr.result]
                  ELSE AttLoop([cr EXCEPT !.phase = "download", !.idx = 1])
           ELSE LET a == cr.list[cr.idx]
                    at == [cr EXCEPT !.attachment = a, !.idx = @ + 1]
                IN IF cr.kind = "syncAttachments"
                     THEN IF a.syncStatus = AttachmentSyncStatus.LOCAL
                            THEN Calling(at, <<"getAttachment", a.id>>, "getAttachment to upload")
                          ELSE IF a.syncStatus = AttachmentSyncStatus.SYNCED /\ Truthy(Prop(a, "remoteId"))
                            THEN Calling(at, <<"getAttachment", a.id>>, "getAttachment to download")
                          ELSE AttLoop(at)
                     ELSE IF ~Truthy(Prop(a, "remoteId")) /\ a.id \notin ListIds(cr.remoteList)
                            THEN Calling(at, <<"getAttachment", a.id>>, "getAttachment to upload")
                          ELSE AttLoop(at)
    ELSE IF cr.idx > Len(cr.remoteList)
           THEN [cr EXCEPT !.pc = "returned", !.value = cr.result]
           ELSE LET r == cr.remoteList[cr.idx]
                    at == [cr EXCEPT !.attachment = r, !.idx = @ + 1]
                IN IF r.id \notin ListIds(cr.list) THEN EnterDownload(at, r) ELSE AttLoop(at)

(* the invocations and their steps *)
engineVars == <<syncStatus, syncProviders, syncListeners, ideas, syncMeta, remote, clock,
                online, calls, settled, delivered, assigned, budget>>

\* what the caller of a settled invocation gets: outcome returned | threw
AttSettlement(c, cr) ==
  [call |-> c, kind |-> cr.kind, arg |-> cr.arg, outcome |-> cr.pc, value |-> cr.value,
   io |-> cr.io]

\* invocation c goes on as cr, or settles and leaves its slot
AttApply(c, cr) ==
  /\ attCalls' = [attCalls EXCEPT ![c] = IF AttSettledPc(cr) THEN AttFree ELSE cr]
  /\ attSettled' = IF AttSettledPc(cr) THEN <<AttSettlement(c, cr)>> ELSE <<>>

AttFreeSlot ==
  IF \E c \in AttCalls : attCalls[c].kind = "free"
    THEN CHOOSE c \in AttCalls : attCalls[c].kind = "free" /\ \A d \in AttCalls : attCalls[d].kind = "free" => c <= d
    ELSE 0

NoAttInvocation == \A c \in AttCalls : attCalls[c].kind = "free"

AttStart(kind, arg) == [AttFree EXCEPT !.kind = kind, !.arg = arg]

\* lines 25-27; the provider is configured between invocations
SetAttachmentProvider(p) ==
  /\ NoAttInvocation
  /\ attachmentProvider' = p
  /\ attSettled' = <<>>
  /\ UNCHANGED <<attMeta, blobs, remoteBlobs, attCalls, engineVars, pureVars>>

CallUploadAttachment(c, a, b) ==
  /\ c = AttFreeSlot
  /\ AttApply(c, EnterUpload(AttStart("uploadAttachment", a), a, b))
  /\ UNCHANGED <<attachmentProvider, attMeta, blobs, remoteBlobs, engineVars, pureVars>>

CallDownloadAttachment(c, a) ==
  /\ c = AttFreeSlot
  /\ AttApply(c, EnterDownload(AttStart("downloadAttachment", a), a))
  /\ UNCHANGED <<attachmentProvider, attMeta, blobs, remoteBlobs, engineVars, pureVars>>

CallDeleteRemoteAttachment(c, a) ==
  /\ c = AttFreeSlot
  /\ AttApply(c, EnterDelete(AttStart("deleteRemoteAttachment", a), a))
  /\ UNCHANGED <<attachmentProvider, attMeta, blobs, remoteBlobs, engineVars, pureVars>>

\* syncAttachments(attachments), lines 149-160
CallSyncAttachments(c, list) ==
  /\ c = AttFreeSlot
  /\ AttApply(c, IF attachmentProvider = Null
                   THEN [AttStart("syncAttachments", list) EXCEPT !.pc = "returned", !.value = ZeroResult]
                   ELSE AttLoop([AttStart("syncAttachments", list) EXCEPT !.list = list, !.idx = 1]))
  /\ UNCHANGED <<attachmentProvider, attMeta, blobs, remoteBlobs, engineVars, pureVars>>

\* reconcileAttachments(localAttachments), lines 210-222, and
\* listRemoteAttachments(), lines 192-201
CallReconcileAttachments(c, list) ==
  /\ c = AttFreeSlot
  /\ LET cr == [AttStart("reconcileAttachments", list) EXCEPT !.list = list, !.pc = "listRemoteAttachments"]
     IN AttApply(c, IF attachmentProvider = Null
                      THEN [cr EXCEPT !.pc = "returned", !.value = ZeroResult]
                    ELSE IF ~attachmentProvider.listAttachments
                      THEN cr
                    ELSE [Calling(cr, <<"provider.listAttachments">>, "listRemoteAttachments")
                            EXCEPT !.listed = TRUE])
  /\ UNCHANGED <<attachmentProvider, attMeta, blobs, remoteBlobs, engineVars, pureVars>>

\* Every Local Store and provider operation may fail; a failed operation
\* has changed nothing.

\* line 57: updateAttachment(syncingAttachment) completes; line 61 calls the provider
UpdateSyncing(c) ==
  /\ attCalls[c].pc = "updateAttachment syncing"
  /\ LET cr == attCalls[c]
     IN \E ok \in BOOLEAN :
          IF ok
            THEN /\ attMeta' = updateAttachment(attMeta, syncingAttachment(cr.attachment))
                 /\ AttApply(c, Calling(cr, <<"provider.uploadAttachment", cr.attachment.id>>,
                                        "provider.uploadAttachment"))
            ELSE /\ attMeta' = attMeta
                 /\ AttApply(c, Thrown(cr, StoreFailed))
  /\ UNCHANGED <<attachmentProvider, blobs, remoteBlobs, engineVars, pureVars>>

\* lines 61-74: the provider call completes; lines 77-84 if it failed
ProviderUpload(c) ==
  /\ attCalls[c].pc = "provider.uploadAttachment"
  /\ LET cr == attCalls[c]
         a == cr.attachment
     IN \E ok \in BOOLEAN :
          IF ok
            THEN /\ remoteBlobs' = [remoteBlobs EXCEPT ![a.id] = cr.blob]
                 /\ AttApply(c, Calling(cr, <<"updateAttachment", syncedAttachment(a, RemoteId(a.id))>>,
                                        "updateAttachment synced"))
            ELSE /\ remoteBlobs' = remoteBlobs
                 /\ AttApply(c, Calling([cr EXCEPT !.err = ProviderFailed],
                                        <<"updateAttachment", errorAttachment(a, ProviderFailed)>>,
                                        "updateAttachment error"))
  /\ UNCHANGED <<attachmentProvider, attMeta, blobs, engineVars, pureVars>>

\* a variant of lines 74-76 that returns the record without persisting it
UpdateSyncedUnsaved(c) ==
  /\ attCalls[c].pc = "updateAttachment synced"
  /\ AttApply(c, Returned(attCalls[c], syncedAttachment(attCalls[c].attachment,
                                                        RemoteId(attCalls[c].attachment.id))))
  /\ UNCHANGED <<attachmentProvider, attMeta, blobs, remoteBlobs, engineVars, pureVars>>

\* line 74, then line 76; lines 77-84 if the write failed
UpdateSynced(c) ==
  /\ attCalls[c].pc = "updateAttachment synced"
  /\ LET cr == attCalls[c]
         a == cr.attachment
     IN \E ok \in BOOLEAN :
          IF ok
            THEN /\ attMeta' = updateAttachment(attMeta, syncedAttachment(a, RemoteId(a.id)))
                 /\ AttApply(c, Returned(cr, syncedAttachment(a, RemoteId(a.id))))
            ELSE /\ attMeta' = attMeta
                 /\ AttApply(c, Calling([cr EXCEPT !.err = StoreFailed],
                                        <<"updateAttachment", errorAttachment(a, StoreFailed)>>,
                                        "updateAttachment error"))
  /\ UNCHANGED <<attachmentProvider, blobs, remoteBlobs, engineVars, pureVars>>

\* line 84, then line 86
UpdateError(c) ==
  /\ attCalls[c].pc = "updateAttachment error"
  /\ LET cr == attCalls[c]
     IN \E ok \in BOOLEAN :
          IF ok
            THEN /\ attMeta' = updateAttachment(attMeta, errorAttachment(cr.attachment, cr.err))
                 /\ AttApply(c, Thrown(cr, cr.err))
            ELSE /\ attMeta' = attMeta
                 /\ AttApply(c, Thrown(cr, StoreFailed))
  /\ UNCHANGED <<attachmentProvider, blobs, remoteBlobs, engineVars, pureVars>>

\* lines 109-115
AfterGetAttachment(cr, local) ==
  IF HasLocalBlob(local) THEN Returned(cr, local.blob)
  ELSE Calling(cr, <<"provider.downloadAttachment", cr.attachment.remoteId>>, "provider.downloadAttachment")

\* line 109: getAttachment(attachment.id) completes
GetAttachment(c) ==
  /\ attCalls[c].pc = "getAttachment"
  /\ LET cr == attCalls[c]
     IN \E ok \in BOOLEAN :
          AttApply(c, IF ok THEN AfterGetAttachment(cr, getAttachment(blobs, cr.attachment.id))
                      ELSE Thrown(cr, StoreFailed))
  /\ UNCHANGED <<attachmentProvider, attMeta, blobs, remoteBlobs, engineVars, pureVars>>

\* line 115: the provider returns the blob stored under the remoteId, if
\* there is one; line 118 calls saveAttachment
ProviderDownload(c) ==
  /\ attCalls[c].pc = "provider.downloadAttachment"
  /\ LET cr == attCalls[c]
         i == RemoteIdOwner(cr.attachment.remoteId)
     IN \E ok \in BOOLEAN :
          IF ok /\ i # 0 /\ remoteBlobs[i] # Undefined
            THEN AttApply(c, Calling([cr EXCEPT !.blob = remoteBlobs[i]],
                                     <<"saveAttachment", cr.attachment.id>>, "saveAttachment"))
            ELSE AttApply(c, Thrown(cr, ProviderFailed))
  /\ UNCHANGED <<attachmentProvider, attMeta, blobs, remoteBlobs, engineVars, pureVars>>

\* a variant of line 118 that stores every blob under one key
SaveAttachmentUnkeyed(c) ==
  /\ attCalls[c].pc = "saveAttachment"
  /\ LET cr == attCalls[c]
     IN \E ok \in BOOLEAN :
          IF ok
            THEN /\ blobs' = [blobs EXCEPT ![1] = cr.blob]
                 /\ AttApply(c, Returned(cr, cr.blob))
            ELSE /\ blobs' = blobs
                 /\ AttApply(c, Thrown(cr, StoreFailed))
  /\ UNCHANGED <<attachmentProvider, attMeta, remoteBlobs, engineVars, pureVars>>

\* line 118, then line 120
SaveAttachment(c) ==
  /\ attCalls[c].pc = "saveAttachment"
  /\ LET cr == attCalls[c]
     IN \E ok \in BOOLEAN :
          IF ok
            THEN /\ blobs' = [blobs EXCEPT ![cr.attachment.id] = cr.blob]
                 /\ AttApply(c, Returned(cr, cr.blob))
            ELSE /\ blobs' = blobs
                 /\ AttApply(c, Thrown(cr, StoreFailed))
  /\ UNCHANGED <<attachmentProvider, attMeta, remoteBlobs, engineVars, pureVars>>

\* line 141
ProviderDelete(c) ==
  /\ attCalls[c].pc = "provider.deleteAttachment"
  /\ LET cr == attCalls[c]
         i == RemoteIdOwner(cr.attachment.remoteId)
     IN \E ok \in BOOLEAN :
          IF ok
            THEN /\ remoteBlobs' = [j \in AttIds |-> IF j = i THEN Undefined ELSE remoteBlobs[j]]
                 /\ AttApply(c, Returned(cr, Undefined))
            ELSE /\ remoteBlobs' = remoteBlobs
                 /\ AttApply(c, Thrown(cr, ProviderFailed))
  /\ UNCHANGED <<attachmentProvider, attMeta, blobs, engineVars, pureVars>>

\* lines 164-168 and 230-234: the lookup before an upload completes
GetAttachmentToUpload(c) ==
  /\ attCalls[c].pc = "getAttachment to upload"
  /\ LET cr == attCalls[c]
         local == getAttachment(blobs, cr.attachment.id)
     IN \E ok \in BOOLEAN :
          AttApply(c, IF ~ok THEN Thrown(cr, StoreFailed)
                      ELSE IF HasLocalBlob(local) THEN EnterUpload(cr, cr.attachment, local.blob)
                      ELSE AttLoop(cr))
  /\ UNCHANGED <<attachmentProvider, attMeta, blobs, remoteBlobs, engineVars, pureVars>>

\* lines 171-175: the lookup before a download completes
GetAttachmentToDownload(c) ==
  /\ attCalls[c].pc = "getAttachment to download"
  /\ LET cr == attCalls[c]
         local == getAttachment(blobs, cr.attachment.id)
     IN \E ok \in BOOLEAN :
          AttApply(c, IF ~ok THEN Thrown(cr, StoreFailed)
                      ELSE IF ~HasLocalBlob(local) THEN EnterDownload(cr, cr.attachment)
                      ELSE AttLoop(cr))
  /\ UNCHANGED <<attachmentProvider, attMeta, blobs, remoteBlobs, engineVars, pureVars>>

\* a variant of lines 222-224 without the catch of lines 258-263
ListRemoteAttachmentsThrows(c) ==
  /\ attCalls[c].pc = "listRemoteAttachments"
  /\ LET cr == attCalls[c]
     IN \E ok \in BOOLEAN :
          AttApply(c, IF ok \/ ~cr.listed
                        THEN AttLoop([cr EXCEPT !.remoteList = IF cr.listed THEN Listing(remoteBlobs, 1) ELSE <<>>,
                                                !.phase = "upload", !.idx = 1])
                        ELSE [cr EXCEPT !.pc = "threw", !.value = AttError(ProviderFailed)])
  /\ UNCHANGED <<attachmentProvider, attMeta, blobs, remoteBlobs, engineVars, pureVars>>

\* lines 222-224: listRemoteAttachments() completes; lines 258-263 if it failed
ListRemoteAttachments(c) ==
  /\ attCalls[c].pc = "listRemoteAttachments"
  /\ LET cr == attCalls[c]
         failed == [cr EXCEPT !.result.errors = Append(@, [attachment |-> "list", error |-> ProviderFailed])]
     IN \E ok \in BOOLEAN :
          AttApply(c, IF ok \/ ~cr.listed
                        THEN AttLoop([cr EXCEPT !.remoteList = IF cr.listed THEN Listing(remoteBlobs, 1) ELSE <<>>,
                                                !.phase = "upload", !.idx = 1])
                        ELSE [failed EXCEPT !.pc = "returned", !.value = failed.result])
  /\ UNCHANGED <<attachmentProvider, attMeta, blobs, remoteBlobs, engineVars, pureVars>>

UploadSteps ==
  \/ \E c \in AttCalls : UpdateSyncing(c)
  \/ \E c \in AttCalls : ProviderUpload(c)
  \/ \E c \in AttCalls : UpdateSynced(c)
  \/ \E c \in AttCalls : UpdateError(c)

DownloadSteps ==
  \/ \E c \in AttCalls : GetAttachment(c)
  \/ \E c \in AttCalls : ProviderDownload(c)
  \/ \E c \in AttCalls : SaveAttachment(c)

BatchSteps ==
  \/ \E c \in AttCalls : GetAttachmentToUpload(c)
  \/ \E c \in AttCalls : GetAttachmentToDownload(c)
  \/ \E c \in AttCalls : ListRemoteAttachments(c)

\* the lists of metadata a caller passes: distinct ids
AttachmentLists ==
  {l \in UNION {[1..n -> AttachmentArgs] : n \in 0..MaxAttId} :
     \A j, k \in 1..Len(l) : l[j].id = l[k].id => j = k}

\* the sync engine at rest
EngineIdle ==
  /\ syncStatus = IDLE
  /\ syncProviders = <<>>
  /\ syncListeners = <<>>
  /\ ideas = [i \in Ids |-> NoIdea]
  /\ syncMeta = [n \in ProviderNames |-> NoValue]
  /\ remote = [n \in ProviderNames |-> NoPayload]
  /\ clock = 1
  /\ online = TRUE
  /\ calls = [c \in Calls |-> FreeCall]
  /\ settled = <<>>
  /\ delivered = <<>>
  /\ assigned = <<>>
  /\ budget = [localWrites |-> 0, remoteWrites |-> 0]

\* the attachment engine at rest, nothing stored anywhere
NoAttachments ==
  /\ attachmentProvider = Null
  /\ attMeta = [i \in AttIds |-> Attachment(i, Null, AttachmentSyncStatus.LOCAL)]
  /\ blobs = [i \in AttIds |-> Undefined]
  /\ remoteBlobs = [i \in AttIds |-> Undefined]
  /\ attCalls = [c \in AttCalls |-> AttFree]
  /\ attSettled = <<>>

(* ---------------------------- specification --------------------------- *)
NotCalled == [local |-> <<>>, toUpload |-> <<"not called">>]
TheProvider == "drive"

(* ------------------ two devices sharing one provider ------------------ *)
\* Each device has its own Local Store and its own engine instance.  A
\* device is idle or in a cycle (its status is syncing); pc names the
\* operation the cycle awaits.  The two reads of lines 129-130 are one step,
\* and so are the write of the sync-meta entry and the end of the cycle: they
\* touch the device's own store only.  edits, counted and cycles are history:
\* the saveIdea calls made on the device, whether the cycle in flight started
\* after the last edit on either device and has had the provider to itself,
\* and the successful cycles that did, the devices taking turns.
Devices == {1, 2}
IdleDevice ==
  [ideas |-> [i \in Ids |-> NoIdea], pc |-> "idle", localIdeas |-> <<>>, pendingIdeas |-> <<>>,
   merged |-> EmptyMerge, idx |-> 0, edits |-> 0, counted |-> FALSE, cycles |-> 0]

NoDevices == devices = [d \in Devices |-> IdleDevice]

DeviceBody(d) == IF d = 1 THEN "l" ELSE "r"

\* saveIdea on device d
DeviceSaveIdea(d, i) ==
  /\ devices[d].edits < MaxLocalWrites
  /\ devices' = [e \in Devices |->
                   IF e = d
                     THEN [devices[e] EXCEPT !.ideas[i] = Idea(i, clock, TRUE, DeviceBody(d)),
                                             !.edits = @ + 1, !.counted = FALSE, !.cycles = 0]
                     ELSE [devices[e] EXCEPT !.counted = FALSE, !.cycles = 0]]
  /\ UNCHANGED <<syncStatus, calls, settled, delivered, assigned, envVars, dataVars, budget,
                 mergeLocal, mergeRemote, mergeOut, attVars>>

Other(d) == CHOOSE e \in Devices : e # d

\* the cycle of device d, now dv, ends: lines 158-161 (success) or 162-166
DeviceEnds(d, dv, success) ==
  [dv EXCEPT !.pc = "idle", !.localIdeas = <<>>, !.pendingIdeas = <<>>, !.merged = EmptyMerge,
             !.idx = 0, !.counted = FALSE,
             !.cycles = IF /\ success /\ dv.counted
                           /\ dv.cycles < MaxCycles /\ dv.cycles <= devices[Other(d)].cycles
                          THEN @ + 1 ELSE @]

DeviceStep(d, dv) ==
  /\ devices' = [e \in Devices |->
                   IF e = d THEN dv
                   ELSE IF dv.pc = "fetch" THEN [devices[e] EXCEPT !.counted = FALSE]
                   ELSE devices[e]]
  /\ UNCHANGED <<syncStatus, calls, settled, delivered, assigned, envVars, ideas, syncMeta,
                 budget, mergeLocal, mergeRemote, mergeOut, attVars>>

\* syncToProvider on device d, lines 117-130
DeviceSync(d) ==
  /\ devices[d].pc = "idle"
  /\ DeviceStep(d, [devices[d] EXCEPT !.pc = "fetch",
                                      !.counted = (devices[Other(d)].pc = "idle"),
                                      !.localIdeas = getAllIdeas(devices[d].ideas),
                                      !.pendingIdeas = getPendingSyncIdeas(devices[d].ideas)])
  /\ UNCHANGED remote

\* lines 134-137
DeviceFetch(d) ==
  /\ devices[d].pc = "fetch"
  /\ \E ok \in BOOLEAN :
       DeviceStep(d, IF ok
                       THEN [devices[d] EXCEPT
                               !.merged = mergeIdeas(devices[d].localIdeas,
                                                     remote[TheProvider].ideas, NoValue),
                               !.pc = "bulkSaveIdeas"]
                       ELSE DeviceEnds(d, devices[d], FALSE))
  /\ UNCHANGED remote

\* lines 140-143
DeviceBulkSaveIdeas(d) ==
  /\ devices[d].pc = "bulkSaveIdeas"
  /\ LET dv == [devices[d] EXCEPT !.ideas = bulkSaveIdeas(devices[d].ideas, devices[d].merged.local)]
     IN DeviceStep(d, IF ShouldPush(dv) THEN [dv EXCEPT !.pc = "push"] ELSE DeviceEnds(d, dv, TRUE))
  /\ UNCHANGED remote

\* lines 144-150
DevicePush(d) ==
  /\ devices[d].pc = "push"
  /\ \E ok \in BOOLEAN :
       IF ok
         THEN /\ remote' = [remote EXCEPT ![TheProvider] =
                              [ideas |-> devices[d].merged.local, lastModified |-> clock]]
              /\ DeviceStep(d, IF Len(devices[d].pendingIdeas) > 0
                                 THEN [devices[d] EXCEPT !.pc = "markSynced", !.idx = 1]
                                 ELSE DeviceEnds(d, devices[d], TRUE))
         ELSE /\ remote' = remote
              /\ DeviceStep(d, DeviceEnds(d, devices[d], FALSE))

\* lines 150-161
DeviceMarkSynced(d) ==
  /\ devices[d].pc = "markSynced"
  /\ LET dv == [devices[d] EXCEPT
                  !.ideas = markSynced(devices[d].ideas, devices[d].pendingIdeas[devices[d].idx].id)]
     IN DeviceStep(d, IF dv.idx < Len(dv.pendingIdeas) THEN [dv EXCEPT !.idx = @ + 1]
                      ELSE DeviceEnds(d, dv, TRUE))
  /\ UNCHANGED remote

NoMerge == mergeLocal = <<>> /\ mergeRemote = <<>> /\ mergeOut = NotCalled

\* the operations of a cycle
Cycle ==
  \/ \E c \in Calls : GetAllIdeas(c)
  \/ \E c \in Calls : GetPendingSyncIdeas(c)
  \/ \E c \in Calls : GetSyncMeta(c)
  \/ \E c \in Calls : Fetch(c)
  \/ \E c \in Calls : BulkSaveIdeas(c)
  \/ \E c \in Calls : Push(c)
  \/ \E c \in Calls : MarkSynced(c)
  \/ \E c \in Calls : SetSyncMeta(c)

\* Spec: the engine under every use of its API (registration, listeners,
\* any argument of syncToProvider).  The database is that of an earlier
\* session, which synced with every provider and then saved one idea.
Init ==
  /\ syncStatus = IDLE
  /\ syncProviders = <<>>
  /\ syncListeners = <<>>
  /\ ideas = [i \in Ids |-> IF i = 1 THEN Idea(1, 1, TRUE, "l") ELSE NoIdea]
  /\ syncMeta = [n \in ProviderNames |-> 1]
  /\ remote = [n \in ProviderNames |-> NoPayload]
  /\ clock = 1
  /\ online = TRUE
  /\ calls = [c \in Calls |-> FreeCall]
  /\ settled = <<>>
  /\ delivered = <<>>
  /\ assigned = <<>>
  /\ budget = [localWrites |-> 0, remoteWrites |-> 0]
  /\ NoMerge
  /\ NoDevices
  /\ NoAttachments

Next ==
  \/ \E c \in Calls : CallSync(c)
  \/ \E c \in Calls, arg \in ProviderArgs : CallSyncToProvider(c, arg)
  \/ Cycle
  \/ \E n \in ProviderNames : RegisterProvider(n)
  \/ \E n \in ProviderNames : UnregisterProvider(n)
  \/ OnSyncStatusChange("ui")
  \/ Unsubscribe("ui")

Spec == Init /\ [][Next]_vars

\* SpecListeners: one registered provider, and listeners that may call back
\* into the engine
InitListeners ==
  /\ syncStatus = IDLE
  /\ syncProviders = <<TheProvider>>
  /\ syncListeners = <<>>
  /\ ideas = [i \in Ids |-> IF i = 1 THEN Idea(1, 1, TRUE, "l") ELSE NoIdea]
  /\ syncMeta = [n \in ProviderNames |-> 1]
  /\ remote = [n \in ProviderNames |-> NoPayload]
  /\ clock = 1
  /\ online = TRUE
  /\ calls = [c \in Calls |-> FreeCall]
  /\ settled = <<>>
  /\ delivered = <<>>
  /\ assigned = <<>>
  /\ budget = [localWrites |-> 0, remoteWrites |-> 0]
  /\ NoMerge
  /\ NoDevices
  /\ NoAttachments

NextListeners ==
  \/ \E c \in Calls : CallSync(c)
  \/ \E c \in Calls : CallSyncToProvider(c, <<"object", TheProvider>>)
  \/ Cycle
  \/ \E l \in Listeners : OnSyncStatusChange(l)
  \/ \E l \in Listeners : Unsubscribe(l)

SpecListeners == InitListeners /\ [][NextListeners]_vars

\* SpecData: cycles against one registered provider on an empty database,
\* while the UI saves and deletes ideas, another device writes to the
\* provider's dataset and time passes

InitData ==
  /\ syncStatus = IDLE
  /\ syncProviders = <<TheProvider>>
  /\ syncListeners = <<>>
  /\ ideas = [i \in Ids |-> NoIdea]
  /\ syncMeta = [n \in ProviderNames |-> NoValue]
  /\ remote = [n \in ProviderNames |-> NoPayload]
  /\ clock = 1
  /\ online = TRUE
  /\ calls = [c \in Calls |-> FreeCall]
  /\ settled = <<>>
  /\ delivered = <<>>
  /\ assigned = <<>>
  /\ budget = [localWrites |-> 0, remoteWrites |-> 0]
  /\ NoMerge
  /\ NoDevices
  /\ NoAttachments

NextData ==
  \/ \E c \in Calls : CallSync(c)
  \/ \E c \in Calls : CallSyncToProvider(c, <<"object", TheProvider>>)
  \/ Cycle
  \/ Tick
  \/ \E i \in Ids : SaveIdea(i)
  \/ \E i \in Ids : DeleteIdea(i)
  \/ \E r \in RemoteIdeas : RemoteWrite(TheProvider, r)

SpecData == InitData /\ [][NextData]_vars

\* SpecTurns: two registered providers, in either order; this device is the
\* only one, and its UI saves ideas only while no invocation is in flight
NoInvocation == \A c \in Calls : calls[c].kind = "free"

InitTurns ==
  /\ syncStatus = IDLE
  /\ syncProviders \in {<<"drive", "dropbox">>, <<"dropbox", "drive">>}
  /\ syncListeners = <<>>
  /\ ideas = [i \in Ids |-> NoIdea]
  /\ syncMeta = [n \in ProviderNames |-> NoValue]
  /\ remote = [n \in ProviderNames |-> NoPayload]
  /\ clock = 1
  /\ online = TRUE
  /\ calls = [c \in Calls |-> FreeCall]
  /\ settled = <<>>
  /\ delivered = <<>>
  /\ assigned = <<>>
  /\ budget = [localWrites |-> 0, remoteWrites |-> 0]
  /\ NoMerge
  /\ NoDevices
  /\ NoAttachments

NextTurns ==
  \/ \E c \in Calls : CallSync(c)
  \/ Cycle
  \/ Tick
  \/ \E i \in Ids : NoInvocation /\ SaveIdea(i)

SpecTurns == InitTurns /\ [][NextTurns]_vars

\* SpecConfig: the legacy configuration API and shouldSync(), next to
\* sync(), while the runtime goes online and offline
NextConfig ==
  \/ \E c \in Calls : CallSync(c)
  \/ Cycle
  \/ \E p \in ProviderObjects \cup {NoProvider} : SetProvider(p)
  \/ \E b \in BOOLEAN : SetOnline(b)
  \/ ShouldSync

SpecConfig == Init /\ [][NextConfig]_vars

\* SpecAttach: uploadAttachment, downloadAttachment and deleteRemoteAttachment
\* called for one attachment, with any provider, up to MaxAttCalls
\* invocations in flight at once; some blobs are stored locally and some in
\* the provider's folder
InitAttach ==
  /\ EngineIdle
  /\ NoMerge
  /\ NoDevices
  /\ attachmentProvider = Null
  /\ blobs \in [AttIds -> {Undefined, LocalBlob}]
  /\ remoteBlobs \in [AttIds -> {Undefined, RemoteBlob}]
  /\ attMeta = [i \in AttIds |-> IF remoteBlobs[i] = Undefined
                                   THEN Attachment(i, Null, AttachmentSyncStatus.LOCAL)
                                   ELSE Attachment(i, RemoteId(i), AttachmentSyncStatus.SYNCED)]
  /\ attCalls = [c \in AttCalls |-> AttFree]
  /\ attSettled = <<>>

\* the metadata of the attachment the direct calls are made for: not yet
\* uploaded, or uploaded
DirectArgs ==
  {Attachment(1, Null, AttachmentSyncStatus.LOCAL),
   Attachment(1, RemoteId(1), AttachmentSyncStatus.SYNCED)}

NextAttach ==
  \/ \E p \in AttProviders \cup {Null} : SetAttachmentProvider(p)
  \/ \E c \in AttCalls, a \in DirectArgs : CallUploadAttachment(c, a, LocalBlob)
  \/ \E c \in AttCalls, a \in DirectArgs : CallDownloadAttachment(c, a)
  \/ \E c \in AttCalls, a \in DirectArgs : CallDeleteRemoteAttachment(c, a)
  \/ UploadSteps
  \/ DownloadSteps
  \/ \E c \in AttCalls : ProviderDelete(c)

SpecAttach == InitAttach /\ [][NextAttach]_vars

\* SpecBatch: syncAttachments and reconcileAttachments over every list of
\* metadata, one invocation at a time
NextBatch ==
  \/ \E p \in AttProviders \cup {Null} : SetAttachmentProvider(p)
  \/ \E c \in AttCalls, l \in AttachmentLists : NoAttInvocation /\ CallSyncAttachments(c, l)
  \/ \E c \in AttCalls, l \in AttachmentLists : NoAttInvocation /\ CallReconcileAttachments(c, l)
  \/ DownloadSteps
  \/ BatchSteps

SpecBatch == InitAttach /\ [][NextBatch]_vars

\* SpecRetry: uploadAttachment called with the metadata currently persisted
\* for an attachment (the caller takes it from the record), one call at a
\* time, so that an attachment whose upload failed is uploaded again
NextRetry ==
  \/ \E p \in AttProviders \cup {Null} : SetAttachmentProvider(p)
  \/ \E c \in AttCalls : NoAttInvocation /\ CallUploadAttachment(c, attMeta[1], LocalBlob)
  \/ UploadSteps

SpecRetry == InitAttach /\ [][NextRetry]_vars

\* SpecPair: uploadAttachment and downloadAttachment with a provider that
\* has every method, at most one invocation per attachment in flight
PairArgs ==
  UNION {{Attachment(i, Null, AttachmentSyncStatus.LOCAL),
          Attachment(i, RemoteId(i), AttachmentSyncStatus.SYNCED)} : i \in AttIds}

\* no invocation for attachment i is in flight
Idle(i) == \A c \in AttCalls : attCalls[c].kind # "free" => attCalls[c].attachment.id # i

NextPair ==
  \/ \E p \in {FullProvider, Null} : SetAttachmentProvider(p)
  \/ \E c \in AttCalls, a \in PairArgs : Idle(a.id) /\ CallUploadAttachment(c, a, LocalBlob)
  \/ \E c \in AttCalls, a \in PairArgs : Idle(a.id) /\ CallDownloadAttachment(c, a)
  \/ UploadSteps
  \/ DownloadSteps

SpecPair == InitAttach /\ [][NextPair]_vars

\* SpecInvalid: cycles against one provider whose dataset another device
\* fills with records that fail validation: an updatedAt that cannot be
\* parsed, or a body without its required fields
NoTitle == "untitled"
InvalidRemoteIdeas ==
  {Idea(i, t, FALSE, b) : i \in Ids, t \in TimeStrings, b \in {"r", NoTitle}}
    \ {Idea(i, t, FALSE, "r") : i \in Ids, t \in Times}

NextInvalid ==
  \/ \E c \in Calls : CallSyncToProvider(c, <<"object", TheProvider>>)
  \/ Cycle
  \/ Tick
  \/ \E i \in Ids : SaveIdea(i)
  \/ \E r \in InvalidRemoteIdeas : RemoteWrite(TheProvider, r)

SpecInvalid == InitData /\ [][NextInvalid]_vars

\* SpecLive: Spec, in which every Local Store and provider operation a
\* cycle awaits eventually returns or fails
CycleStep(c) ==
  \/ GetAllIdeas(c)
  \/ GetPendingSyncIdeas(c)
  \/ GetSyncMeta(c)
  \/ Fetch(c)
  \/ BulkSaveIdeas(c)
  \/ Push(c)
  \/ MarkSynced(c)
  \/ SetSyncMeta(c)

SpecLive == Init /\ [][Next]_vars /\ \A c \in Calls : WF_vars(CycleStep(c))

\* SpecDevices: two devices run cycles against the same provider while
\* their UIs save ideas and time passes
NextDevices ==
  \/ \E d \in Devices, i \in Ids : DeviceSaveIdea(d, i)
  \/ \E d \in Devices : DeviceSync(d)
  \/ \E d \in Devices : DeviceFetch(d)
  \/ \E d \in Devices : DeviceBulkSaveIdeas(d)
  \/ \E d \in Devices : DevicePush(d)
  \/ \E d \in Devices : DeviceMarkSynced(d)
  \/ Tick

SpecDevices == InitData /\ [][NextDevices]_vars

\* SpecMerge: mergeIdeas on its own, applied to every pair of datasets
\* (lists of records with distinct ids)
Datasets ==
  {s \in UNION {[1..n -> AllIdeas] : n \in 0..MaxId} :
     \A j, k \in 1..Len(s) : s[j].id = s[k].id => j = k}

InitMerge ==
  /\ syncStatus = IDLE
  /\ syncProviders = <<>>
  /\ syncListeners = <<>>
  /\ ideas = [i \in Ids |-> NoIdea]
  /\ syncMeta = [n \in ProviderNames |-> NoValue]
  /\ remote = [n \in ProviderNames |-> NoPayload]
  /\ clock = 1
  /\ online = TRUE
  /\ calls = [c \in Calls |-> FreeCall]
  /\ settled = <<>>
  /\ delivered = <<>>
  /\ assigned = <<>>
  /\ budget = [localWrites |-> 0, remoteWrites |-> 0]
  /\ mergeLocal \in Datasets
  /\ mergeRemote \in Datasets
  /\ mergeOut = NotCalled
  /\ NoDevices
  /\ NoAttachments

MergeIdeas ==
  /\ mergeOut = NotCalled
  /\ \E lastSync \in Times \cup {NoValue} :
       mergeOut' = mergeIdeas(mergeLocal, mergeRemote, lastSync)
  /\ UNCHANGED <<syncStatus, syncProviders, syncListeners, ideas, syncMeta, remote, clock,
                 online, calls, settled, delivered, assigned, budget, mergeLocal, mergeRemote,
                 devices, attVars>>

SpecMerge == InitMerge /\ [][MergeIdeas]_vars

(* ------------------------------ properties ---------------------------- *)
InFlight == {c \in Calls : InCycle(calls[c])}
Completed(cr, op) == \E k \in 1..Len(cr.oplog) : cr.oplog[k] = op
\* provider.push has been invoked in the cycle
Pushed(cr) == cr.payload # NoPayload

\* C1: at most one cycle is between setting the status to syncing and its
\* final status assignment, whatever the interleaving of sync() and
\* syncToProvider() calls.  (Fails under SpecListeners.)
MutualExclusion == Cardinality(InFlight) <= 1

\* C2: syncToProvider invoked with a registered provider while the status is
\* syncing returns {success: false, error: 'Sync already in progress'} and
\* changes nothing: the Local Store, the providers' datasets, the status and
\* the calls in flight stay as they are and no listener is called.
IsRejectedInvocation(c, arg) ==
  /\ syncStatus = SYNCING
  /\ arg[2] \in Range(syncProviders)
  /\ CallSyncToProvider(c, arg)

ReentrancyRejection ==
  [][\A c \in Calls, arg \in ProviderArgs :
       IsRejectedInvocation(c, arg) =>
         /\ Len(settled') = 1
         /\ settled'[1].pc = "returned"
         /\ settled'[1].result = InProgress
         /\ delivered' = <<>>
         /\ assigned' = <<>>
         /\ UNCHANGED <<syncStatus, calls, ideas, syncMeta, remote, syncProviders, syncListeners>>]_vars

\* a registered provider was refused while a cycle was in flight and a
\* listener was registered
ReentrancyRejected ==
  /\ \E k \in 1..Len(settled) :
       /\ settled[k].kind = "syncToProvider"
       /\ settled[k].arg[2] \in Range(syncProviders)
       /\ settled[k].result = InProgress
  /\ InFlight # {}
  /\ syncListeners # <<>>

\* C3: the operations of a cycle start one after the other in the order
\* getAllIdeas, getPendingSyncIdeas, getSyncMeta, fetch, merge,
\* bulkSaveIdeas, push (if any), markSynced, setSyncMeta, each after the
\* previous one has completed; and when provider.push is invoked the Local
\* Store holds every record of the payload.
StepRank(op) ==
  CASE op = "getAllIdeas" -> 1
    [] op = "getPendingSyncIdeas" -> 2
    [] op = "getSyncMeta" -> 3
    [] op = "fetch" -> 4
    [] op = "merge" -> 5
    [] op = "bulkSaveIdeas" -> 6
    [] op = "push" -> 7
    [] op = "markSynced" -> 8
    [] op = "setSyncMeta" -> 9

\* the operations the cycle has started: those completed, then the one awaited
Started(cr) == Append(cr.oplog, cr.pc)

InStepOrder(ops) ==
  /\ \A k \in 1..Len(ops) : k <= 6 => StepRank(ops[k]) = k
  /\ \A k \in 1..(Len(ops) - 1) :
       \/ StepRank(ops[k]) < StepRank(ops[k + 1])
       \/ ops[k] = "markSynced" /\ ops[k + 1] = "markSynced"
  /\ \A k \in 2..Len(ops) : ops[k] = "markSynced" => ops[k - 1] \in {"push", "markSynced"}

PushInvoked(c) == calls[c].pc # "push" /\ calls'[c].pc = "push"

StrictStepOrder ==
  /\ [](\A c \in InFlight : InStepOrder(Started(calls[c])))
  /\ [][\A c \in Calls :
          PushInvoked(c) =>
            \A k \in 1..Len(calls'[c].payload.ideas) :
              ideas'[calls'[c].payload.ideas[k].id] = calls'[c].payload.ideas[k]]_vars

\* push is awaited with a payload that holds a record adopted from remote
PushAfterPersist ==
  \E c \in Calls :
    /\ calls[c].pc = "push"
    /\ calls[c].oplog = <<"getAllIdeas", "getPendingSyncIdeas", "getSyncMeta", "fetch",
                          "merge", "bulkSaveIdeas">>
    /\ \E k \in 1..Len(calls[c].payload.ideas) : calls[c].payload.ideas[k].body = "r"

\* C4: the status is always idle, syncing or error, starts as idle, and
\* every change of it is idle -> syncing, error -> syncing, syncing -> idle
\* or syncing -> error.  (Fails under Spec.)
LegalTransitions ==
  {<<IDLE, SYNCING>>, <<ERROR, SYNCING>>, <<SYNCING, IDLE>>, <<SYNCING, ERROR>>}

\* the values the status takes in a step, from the one it had
StatusPath == <<syncStatus>> \o assigned'

StatusStateMachine ==
  /\ syncStatus = IDLE
  /\ [](syncStatus \in SyncStatus)
  /\ [][\A k \in 1..(Len(StatusPath) - 1) :
          <<StatusPath[k], StatusPath[k + 1]>> \in LegalTransitions]_vars

\* C5: no invocation of sync() or syncToProvider() ends with an exception:
\* whatever fails after the status was set to syncing, the invocation
\* returns a result.  (Fails under Spec.)
NoExceptionEscapes == \A k \in 1..Len(settled) : settled[k].pc # "threw"

(* mergeIdeas *)
MergeCalled == mergeOut # NotCalled
Newer(a, b) == JsGreater(DateGetTime(a.updatedAt), DateGetTime(b.updatedAt))
Adopted(r) == [r EXCEPT !.pendingSync = FALSE]
InBoth == SeqIds(mergeLocal) \cap SeqIds(mergeRemote)

\* C6: for an id present on both sides the merged record is the remote copy
\* with pendingSync false if the remote updatedAt is strictly greater, and
\* the unchanged local copy otherwise; the local copy is on the upload list
\* iff the local updatedAt is strictly greater; on a tie the local copy is
\* kept and nothing is queued.
MergeConflictRule ==
  MergeCalled =>
    \A i \in InBoth :
      LET l == MapGet(mergeLocal, i)
          r == MapGet(mergeRemote, i)
          m == MapGet(mergeOut.local, i)
      IN /\ Newer(r, l) => m = Adopted(r)
         /\ ~Newer(r, l) => m = l
         /\ Newer(l, r) => l \in Range(mergeOut.toUpload)
         /\ ~Newer(l, r) => i \notin SeqIds(mergeOut.toUpload)

\* a merge with a tie between two different copies, and a remote copy that
\* is newer
MergedConflicts ==
  /\ MergeCalled
  /\ \E i \in InBoth :
       /\ MapGet(mergeLocal, i).updatedAt = MapGet(mergeRemote, i).updatedAt
       /\ MapGet(mergeLocal, i).updatedAt \in Times
       /\ MapGet(mergeLocal, i).body # MapGet(mergeRemote, i).body
  /\ \E i \in InBoth : Newer(MapGet(mergeRemote, i), MapGet(mergeLocal, i))

\* C7: a record present only locally is in the merged set unchanged and not
\* on the upload list; a record present only remotely is in the merged set
\* with pendingSync false and its other fields unchanged; the merged set
\* holds exactly one record for each id of local and remote, and no other.
MergeOneSided ==
  MergeCalled =>
    /\ \A k \in 1..Len(mergeLocal) :
         mergeLocal[k].id \notin SeqIds(mergeRemote) =>
           /\ mergeLocal[k] \in Range(mergeOut.local)
           /\ mergeLocal[k].id \notin SeqIds(mergeOut.toUpload)
    /\ \A k \in 1..Len(mergeRemote) :
         mergeRemote[k].id \notin SeqIds(mergeLocal) =>
           Adopted(mergeRemote[k]) \in Range(mergeOut.local)
    /\ SeqIds(mergeOut.local) = SeqIds(mergeLocal) \cup SeqIds(mergeRemote)
    /\ Len(mergeOut.local) = Cardinality(SeqIds(mergeLocal) \cup SeqIds(mergeRemote))

\* a merge of a pending local-only record with a remote-only record that
\* came flagged pendingSync
MergedOneSided ==
  /\ MergeCalled
  /\ \E k \in 1..Len(mergeLocal) :
       mergeLocal[k].id \notin SeqIds(mergeRemote) /\ mergeLocal[k].pendingSync
  /\ \E k \in 1..Len(mergeRemote) :
       mergeRemote[k].id \notin SeqIds(mergeLocal) /\ mergeRemote[k].pendingSync

\* C8: merging a dataset with itself returns that dataset, record for
\* record, and an empty upload list.
MergeIdempotence ==
  (MergeCalled /\ mergeLocal = mergeRemote) =>
    /\ mergeOut.local = mergeLocal
    /\ mergeOut.toUpload = <<>>

\* a dataset of MaxId records, one of them pendingSync, merged with itself
MergedWithItself ==
  /\ MergeCalled
  /\ mergeLocal = mergeRemote
  /\ Len(mergeLocal) = MaxId
  /\ \E k \in 1..Len(mergeLocal) : mergeLocal[k].pendingSync

(* the push *)
\* the cycle has persisted the merged set
Persisted(cr) == InCycle(cr) /\ Completed(cr, "bulkSaveIdeas")

PushedWith(cr, r) == Pushed(cr) /\ r \in Range(cr.payload.ideas)

\* C9 as stated: a pendingSync record that the Local Store holds when the
\* cycle starts, and whose id the fetched dataset does not have, is in the
\* payload of a push of that cycle once fetch and persist have succeeded.
\* (Fails under SpecData.)
UploadQueuingFromStart ==
  \A c \in Calls :
    Persisted(calls[c]) =>
      \A k \in 1..Len(calls[c].pendingAtStart) :
        calls[c].pendingAtStart[k].id \notin SeqIds(calls[c].remoteIdeas) =>
          PushedWith(calls[c], calls[c].pendingAtStart[k])

\* C9: a pendingSync record that the cycle read, both with the local records
\* and with the pending set, and whose id the fetched dataset does not
\* have, is in the payload of a push of that cycle once fetch and persist
\* have succeeded.
UploadQueuing ==
  \A c \in Calls :
    Persisted(calls[c]) =>
      \A k \in 1..Len(calls[c].pendingIdeas) :
        ( /\ calls[c].pendingIdeas[k] \in Range(calls[c].localIdeas)
          /\ calls[c].pendingIdeas[k].id \notin SeqIds(calls[c].remoteIdeas) ) =>
          PushedWith(calls[c], calls[c].pendingIdeas[k])

\* a push is awaited for a pending record that only the Local Store has,
\* next to a record that came from remote
QueuedUpload ==
  \E c \in Calls :
    /\ calls[c].pc = "push"
    /\ calls[c].remoteIdeas # <<>>
    /\ \E k \in 1..Len(calls[c].pendingIdeas) :
         /\ calls[c].pendingIdeas[k] \in Range(calls[c].pendingAtStart)
         /\ calls[c].pendingIdeas[k] \in Range(calls[c].localIdeas)
         /\ calls[c].pendingIdeas[k].id \notin SeqIds(calls[c].remoteIdeas)

\* C10: a cycle invokes provider.push iff the upload list of the merge is
\* not empty or the pending set it read is not empty; it invokes it at most
\* once; the payload's ideas are the whole merged set, one record for every
\* id of local and remote.
PushCount(cr) == Cardinality({k \in 1..Len(Started(cr)) : Started(cr)[k] = "push"})

PushCondition ==
  \A c \in InFlight :
    LET cr == calls[c]
        due == Len(cr.merged.toUpload) > 0 \/ Len(cr.pendingIdeas) > 0
    IN /\ Pushed(cr) => due
       /\ Persisted(cr) => (Pushed(cr) <=> due)
       /\ Pushed(cr) <=> PushCount(cr) = 1
       /\ PushCount(cr) <= 1
       /\ Pushed(cr) =>
            /\ cr.payload.ideas = cr.merged.local
            /\ SeqIds(cr.payload.ideas) = SeqIds(cr.localIdeas) \cup SeqIds(cr.remoteIdeas)
            /\ Len(cr.payload.ideas) = Cardinality(SeqIds(cr.localIdeas) \cup SeqIds(cr.remoteIdeas))

\* a push is awaited whose payload holds, next to the pending record, a
\* record of the remote dataset that the merge left as it was
PushedWholeSet ==
  \E c \in Calls :
    /\ calls[c].pc = "push"
    /\ Len(calls[c].pendingIdeas) > 0
    /\ calls[c].merged.toUpload = <<>>
    /\ Len(calls[c].payload.ideas) = MaxId
    /\ \E k \in 1..Len(calls[c].payload.ideas) :
         calls[c].payload.ideas[k] \in Range(calls[c].remoteIdeas)

(* the end of a cycle *)
\* the step ends the cycle of call c: the status is assigned idle or error
CycleEnds(c) == InCycle(calls[c]) /\ calls'[c] # calls[c] /\ assigned' # <<>>
CycleSucceeds(c) == CycleEnds(c) /\ assigned'[1] = IDLE
CycleFails(c) == CycleEnds(c) /\ assigned'[1] = ERROR

StoreIds(store) == {i \in Ids : store[i] # NoIdea}
PendingIn(store) == {i \in StoreIds(store) : store[i].pendingSync}

MarkSyncedAfterPush ==
  \A c \in InFlight :
    (calls[c].pc = "markSynced" \/ Completed(calls[c], "markSynced")) =>
      Completed(calls[c], "push")

ResultsAfter(c) ==
  IF \E k \in 1..Len(settled') : settled'[k].call = c
    THEN (CHOOSE st \in Range(settled') : st.call = c).results
    ELSE calls'[c].results

\* the step makes the cycle of call c return res: to the caller of
\* syncToProvider, or as the next entry of the results of sync()
CycleReturns(c, res) ==
  IF calls[c].kind = "sync"
    THEN /\ Len(ResultsAfter(c)) = Len(calls[c].results) + 1
         /\ ResultsAfter(c)[Len(calls[c].results) + 1] =
              [provider |-> calls[c].current, success |-> res.success, error |-> res.error]
    ELSE \E k \in 1..Len(settled') :
           /\ settled'[k].call = c
           /\ settled'[k].pc = "returned"
           /\ settled'[k].result = res

\* the awaited operation op of call c fails in this step: control reaches
\* the catch block
StepFails(c, op) == calls[c].pc = op /\ calls'[c] # calls[c] /\ ERROR \in Range(assigned')

\* C12: if provider.push fails, the cycle ends with status error and the
\* result {success: false, error: message}; the merged set written by the
\* persist step stays in the Local Store, no markSynced is performed, the
\* records that were pending keep pendingSync = true and lastSync of the
\* provider is unchanged.
PushFailureSemantics ==
  [][\A c \in Calls :
       StepFails(c, "push") =>
         /\ assigned'[1] = ERROR
         /\ CycleReturns(c, Failure(OpFailed))
         /\ \A k \in 1..Len(calls[c].merged.local) :
              ideas'[calls[c].merged.local[k].id] = calls[c].merged.local[k]
         /\ ~Completed(calls[c], "markSynced")
         /\ PendingIn(ideas') = PendingIn(ideas)
         /\ \A k \in 1..Len(calls[c].pendingIdeas) :
              calls[c].pendingIdeas[k].id \in PendingIn(ideas')
         /\ syncMeta' = syncMeta
         /\ remote' = remote]_vars

\* the same without the result and the final status, which a throwing
\* listener takes away
PushFailureKeepsData ==
  [][\A c \in Calls :
       StepFails(c, "push") =>
         /\ \A k \in 1..Len(calls[c].merged.local) :
              ideas'[calls[c].merged.local[k].id] = calls[c].merged.local[k]
         /\ ~Completed(calls[c], "markSynced")
         /\ PendingIn(ideas') = PendingIn(ideas)
         /\ \A k \in 1..Len(calls[c].pendingIdeas) :
              calls[c].pendingIdeas[k].id \in PendingIn(ideas')
         /\ syncMeta' = syncMeta
         /\ remote' = remote]_vars

\* the cycle of call c has written nothing and pushed nothing so far
NothingWritten(c) ==
  \A op \in {"bulkSaveIdeas", "push", "markSynced", "setSyncMeta"} : ~Completed(calls[c], op)

\* the step writes neither the Local Store nor a remote dataset
NoWrite == ideas' = ideas /\ syncMeta' = syncMeta /\ remote' = remote

\* C13: if provider.fetch fails, the cycle aborts with status error, the
\* listeners are notified, the result is success = false with the error's
\* message, and there is no Local Store write (bulk persist, markSynced,
\* setSyncMeta) and no provider.push.
FetchFailureFrame ==
  [][\A c \in Calls :
       StepFails(c, "fetch") =>
         /\ assigned'[1] = ERROR
         /\ \A l \in Range(syncListeners) : <<l, ERROR>> \in Range(delivered')
         /\ CycleReturns(c, Failure(OpFailed))
         /\ NothingWritten(c)
         /\ NoWrite]_vars

\* the same without the result, which a throwing listener takes away
FetchFailureWritesNothing ==
  [][\A c \in Calls :
       StepFails(c, "fetch") =>
         /\ assigned'[1] = ERROR
         /\ \A l \in Range(syncListeners) : <<l, ERROR>> \in Range(delivered')
         /\ NothingWritten(c)
         /\ NoWrite]_vars

(* sync() over the registered providers *)
ResultProviders(results) == [k \in 1..Len(results) |-> results[k].provider]

\* the providers of sync() call cr: those it has a result for, the one it
\* is attempting, and those still to come
Plan(cr) == ResultProviders(cr.results) \o <<cr.current>> \o cr.queue

SettledIn(c) == \E k \in 1..Len(settled') : settled'[k].call = c
SettlementOf(c) == CHOOSE st \in Range(settled') : st.call = c

\* the same after the step; at its end sync() has a result for every one
PlanAfter(c) ==
  IF SettledIn(c) THEN ResultProviders(SettlementOf(c).results) ELSE Plan(calls'[c])

SyncStarts(c) == calls[c].kind = "free" /\ (IF SettledIn(c) THEN SettlementOf(c).kind = "sync"
                                            ELSE calls'[c].kind = "sync")
SyncGoesOn(c) == calls[c].kind = "sync" /\ calls'[c] # calls[c]

AllSucceeded(results) == \A k \in 1..Len(results) : results[k].success

\* C14: sync() attempts the providers registered at the time of the call
\* one at a time in registration order, every one of them even when an
\* earlier one failed, and returns one result entry per provider in that
\* order, with an overall success that is the conjunction of theirs.
SyncAttemptsAll ==
  [][\A c \in Calls :
       /\ SyncStarts(c) => PlanAfter(c) = syncProviders
       /\ SyncGoesOn(c) => PlanAfter(c) = Plan(calls[c])
       /\ (SyncStarts(c) \/ SyncGoesOn(c)) /\ SettledIn(c) =>
            /\ SettlementOf(c).pc = "returned"
            /\ SettlementOf(c).result.success = AllSucceeded(SettlementOf(c).results)]_vars

\* the same for the calls of sync() that return
SyncAttemptsAllOrThrows ==
  [][\A c \in Calls :
       (SyncStarts(c) \/ SyncGoesOn(c)) /\ (SettledIn(c) => SettlementOf(c).pc = "returned") =>
         /\ SyncStarts(c) => PlanAfter(c) = syncProviders
         /\ SyncGoesOn(c) => PlanAfter(c) = Plan(calls[c])
         /\ SettledIn(c) =>
              SettlementOf(c).result.success = AllSucceeded(SettlementOf(c).results)]_vars

\* sync() call c returns in this step, with overall success
SyncReturnsSuccess(c) ==
  /\ SyncGoesOn(c)
  /\ SettledIn(c)
  /\ SettlementOf(c).pc = "returned"
  /\ SettlementOf(c).result.success

\* C15: when sync() returns overall success with two registered providers
\* (no local write during the call), every record that was in the Local
\* Store with pendingSync = true before the call is in the remote dataset
\* of both providers, whatever the registration order.
ProvidersIndependent ==
  [][\A c \in Calls :
       SyncReturnsSuccess(c) /\ Len(SettlementOf(c).results) = 2 =>
         \A k \in 1..Len(calls[c].pendingAtCall), n \in ProviderNames :
           calls[c].pendingAtCall[k].id \in SeqIds(remote'[n].ideas)]_vars

\* the first provider of the call does get them
FirstProviderGetsPending ==
  [][\A c \in Calls :
       SyncReturnsSuccess(c) /\ Len(SettlementOf(c).results) = 2 =>
         \A k \in 1..Len(calls[c].pendingAtCall) :
           calls[c].pendingAtCall[k].id \in SeqIds(remote'[SettlementOf(c).results[1].provider].ideas)]_vars

\* C16: sync() with zero registered providers returns {success: true,
\* results: []} and performs no Local Store operation, no status change and
\* no listener notification.
NoProviderNoOp ==
  [][\A c \in Calls :
       SyncStarts(c) /\ syncProviders = <<>> =>
         /\ SettledIn(c)
         /\ SettlementOf(c).pc = "returned"
         /\ SettlementOf(c).result.success
         /\ SettlementOf(c).results = <<>>
         /\ calls' = calls
         /\ syncStatus' = syncStatus
         /\ assigned' = <<>>
         /\ delivered' = <<>>
         /\ NoWrite]_vars

\* sync() has returned without a provider, a listener being registered
SyncedNoProvider ==
  /\ syncProviders = <<>>
  /\ syncListeners # <<>>
  /\ \E k \in 1..Len(settled) :
       settled[k].kind = "sync" /\ settled[k].pc = "returned" /\ settled[k].results = <<>>

IsUnknownName(c, arg) ==
  /\ arg[1] = "string"
  /\ arg[2] \notin Range(syncProviders)
  /\ CallSyncToProvider(c, arg)

\* C17: syncToProvider(name) with a name that is not registered returns
\* {success: false} with a provider-not-found error and does nothing else:
\* no status change, no listener notification, no Local Store operation and
\* no provider call.
ProviderNotFound ==
  [][\A c \in Calls, arg \in ProviderArgs :
       IsUnknownName(c, arg) =>
         /\ Len(settled') = 1
         /\ settled'[1].pc = "returned"
         /\ settled'[1].result = NotFound
         /\ delivered' = <<>>
         /\ assigned' = <<>>
         /\ UNCHANGED <<syncStatus, calls, ideas, syncMeta, remote, syncProviders, syncListeners>>]_vars

\* an unregistered name was refused while the status was idle and a listener
\* was registered
UnknownNameRefused ==
  /\ \E k \in 1..Len(settled) :
       /\ settled[k].kind = "syncToProvider"
       /\ settled[k].arg[1] = "string"
       /\ settled[k].arg[2] \notin Range(syncProviders)
       /\ settled[k].result = NotFound
  /\ syncStatus = IDLE
  /\ syncListeners # <<>>

(* lastSync-<providerName> *)
\* the cycle of call c calls setSyncMeta in this step
CallsSetSyncMeta(c) == calls[c].pc # "setSyncMeta" /\ calls'[c].pc = "setSyncMeta"

\* the setSyncMeta of the cycle of call c completes in this step: every
\* operation of the cycle has succeeded
AllOperationsSucceed(c) ==
  calls[c].pc = "setSyncMeta" /\ calls'[c] # calls[c] /\ IDLE \in Range(assigned')

\* the value is the time at which setSyncMeta was called
WritesCurrentTime ==
  \A c \in Calls :
    /\ CallsSetSyncMeta(c) => calls'[c].metaValue = clock
    /\ AllOperationsSucceed(c) =>
         syncMeta' = [syncMeta EXCEPT ![calls[c].provider] = calls[c].metaValue]

\* C18 as stated: lastSync-<providerName> does not exist until the first
\* successful push to that provider, and from then on is overwritten with
\* the current time by every successful cycle against that provider; it is
\* never written by a failed cycle nor by a cycle against a different
\* provider.  (Fails under SpecTurns.)
LastSyncSincePush ==
  [][/\ WritesCurrentTime
     /\ \A n \in ProviderNames :
          /\ syncMeta[n] = NoValue /\ syncMeta'[n] # NoValue =>
               \E c \in Calls : calls[c].provider = n /\ Completed(calls[c], "push")
          /\ syncMeta'[n] # syncMeta[n] =>
               \E c \in Calls : calls[c].provider = n /\ AllOperationsSucceed(c)]_vars

\* C18: lastSync-<providerName> does not exist until the first cycle
\* against that provider in which every operation succeeded, pushing or
\* not, and is overwritten with the current time by every such cycle; it is
\* never written by a cycle in which an operation failed nor by a cycle
\* against a different provider.
LastSyncSinceSuccess ==
  [][/\ WritesCurrentTime
     /\ \A n \in ProviderNames :
          syncMeta'[n] # syncMeta[n] =>
            \E c \in Calls : calls[c].provider = n /\ AllOperationsSucceed(c)]_vars

\* sync() has returned a success for a provider that was never pushed to,
\* and the provider's lastSync exists
LastSyncWithoutPush ==
  \E k \in 1..Len(settled), j \in 1..MaxCalls :
    /\ settled[k].kind = "sync"
    /\ j <= Len(settled[k].results)
    /\ settled[k].results[j].success
    /\ syncMeta[settled[k].results[j].provider] \in Times
    /\ remote[settled[k].results[j].provider] = NoPayload

(* notifications *)
\* the statuses listener l was called with, in order
Told(l, log) ==
  LET mine == SelectSeq(log, LAMBDA e : e[1] = l)
  IN [k \in 1..Len(mine) |-> mine[k][2]]

\* C19: every status change is delivered exactly once to every registered
\* listener, with the new status, in the order the changes occur (so
\* syncing then idle, or syncing then error); calls that change no status
\* deliver nothing; a listener that has unsubscribed is not called any more
\* while the others still are.
StatusBroadcasts ==
  [][\A l \in Listeners :
       Told(l, delivered') = IF l \in Range(syncListeners) THEN assigned' ELSE <<>>]_vars

\* a step of the engine: an invocation starts, goes on or ends
EngineStep == \E c \in Calls : calls'[c] # calls[c] \/ SettledIn(c)

\* C20: the engine never deletes a record: over every step of a cycle,
\* successful or failed, and so over every cycle, the ids of the Local
\* Store after it are a superset of the ids before it.
NeverDeletes ==
  [][EngineStep => StoreIds(ideas) \subseteq StoreIds(ideas')]_vars

\* a cycle has ended that wrote a record adopted from the provider next to
\* a record saved by the UI
AdoptedRemoteRecord ==
  /\ IDLE \in Range(assigned)
  /\ \E i, j \in Ids :
       /\ ideas[i] # NoIdea /\ ideas[i].body = "r"
       /\ ideas[j] # NoIdea /\ ideas[j].body = "l"

(* configuration *)
Asked(fn) == \E k \in 1..Len(settled') : settled'[k].kind = fn

\* C21: shouldSync() returns true iff the runtime reports online and at
\* least one provider is registered; it changes no engine state (status,
\* providers, listeners) and performs no I/O.
ShouldSyncIsPure ==
  [][Asked("shouldSync") =>
       /\ Len(settled') = 1
       /\ settled'[1].result = (online /\ Range(syncProviders) # {})
       /\ delivered' = <<>>
       /\ assigned' = <<>>
       /\ UNCHANGED <<syncStatus, syncProviders, syncListeners, calls, online>>
       /\ NoWrite]_vars

\* shouldSync() has answered false with a provider registered, the runtime
\* being offline
ShouldSyncOffline ==
  /\ settled # <<>>
  /\ settled[1].kind = "shouldSync"
  /\ settled[1].result = FALSE
  /\ syncProviders # <<>>
  /\ ~online

\* C22: for any provider object p that has fetch and push (named or not),
\* after setProvider(p) p is among the providers sync() goes through and
\* shouldSync() is true while online; setProvider(null) removes every
\* registered provider.
LegacySetProvider ==
  [][\A p \in ProviderObjects \cup {NoProvider} :
       SetProvider(p) =>
         IF p = NoProvider THEN syncProviders' = <<>>
         ELSE /\ p \in Range(syncProviders')
              /\ online' => shouldSync']_vars

\* the same for the provider objects that have a name
LegacySetNamedProvider ==
  [][\A p \in ProviderNames \cup {NoProvider} :
       SetProvider(p) /\ syncProviders' # syncProviders =>
         IF p = NoProvider THEN syncProviders' = <<>>
         ELSE /\ p \in Range(syncProviders')
              /\ online' => shouldSync']_vars

(* --------------------------- attachments ------------------------------ *)
\* the step settles an invocation of slot c by throwing an error with
\* message msg, the invocation having made no Local Store or provider call
\* and nothing stored having changed
RejectedBeforeIO(c, msg) ==
  /\ attSettled' # <<>>
  /\ attSettled'[1].call = c
  /\ attSettled'[1].outcome = "threw"
  /\ attSettled'[1].value = AttError(msg)
  /\ attSettled'[1].io = <<>>
  /\ UNCHANGED <<attMeta, blobs, remoteBlobs>>

\* C23: uploadAttachment rejects with 'No sync provider configured' without
\* a provider and with 'Provider does not support attachment upload' when
\* the provider lacks the method; downloadAttachment rejects likewise, and
\* with 'Attachment has no remote ID' for an attachment without remoteId;
\* each time before any Local Store or provider call.
ConfigErrorsBeforeIO ==
  [][\A c \in AttCalls, a \in DirectArgs :
       /\ CallUploadAttachment(c, a, LocalBlob) =>
            /\ attachmentProvider = Null => RejectedBeforeIO(c, NoProviderMsg)
            /\ attachmentProvider # Null /\ ~attachmentProvider.uploadAttachment
                 => RejectedBeforeIO(c, NoUploadMsg)
       /\ CallDownloadAttachment(c, a) =>
            /\ attachmentProvider = Null => RejectedBeforeIO(c, NoProviderMsg)
            /\ attachmentProvider # Null /\ ~attachmentProvider.downloadAttachment
                 => RejectedBeforeIO(c, NoDownloadMsg)
            /\ attachmentProvider # Null /\ attachmentProvider.downloadAttachment
                 /\ a.remoteId = Null
                 => RejectedBeforeIO(c, NoRemoteIdMsg)]_vars

\* an upload has been rejected by a provider without the upload method
UploadRejected ==
  /\ attSettled # <<>>
  /\ attSettled[1].kind = "uploadAttachment"
  /\ attSettled[1].outcome = "threw"
  /\ attSettled[1].value = AttError(NoUploadMsg)
  /\ attachmentProvider # Null

\* invocation c is an uploadAttachment whose provider call is in flight
UploadInFlight(c) == attCalls[c].pc = "provider.uploadAttachment"

\* the status persisted for the attachment invocation c is about
PersistedStatus(c) == attMeta[attCalls[c].attachment.id].syncStatus

\* another invocation of uploadAttachment for the same attachment takes a step
OtherUploadActs(c) ==
  \E d \in AttCalls \ {c} :
    /\ attCalls[d].inner = "uploadAttachment"
    /\ attCalls[d].attachment.id = attCalls[c].attachment.id
    /\ attCalls'[d] # attCalls[d]

\* C24 as stated: at every moment while the provider call of an
\* uploadAttachment is in flight, the persisted status of the attachment is
\* syncing.
UploadInFlightIsSyncing ==
  \A c \in AttCalls : UploadInFlight(c) => PersistedStatus(c) = AttachmentSyncStatus.SYNCING

\* C24: uploadAttachment persists the metadata with status syncing before it
\* invokes provider.uploadAttachment; while the provider call is in flight
\* the persisted status is never local, and it is syncing from the
\* invocation of the provider until another uploadAttachment call for the
\* same attachment persists its own outcome.
UploadMarksSyncingFirst ==
  /\ [](\A c \in AttCalls :
          UploadInFlight(c) =>
            /\ attCalls[c].io[1] = <<"updateAttachment", syncingAttachment(attCalls[c].attachment)>>
            /\ PersistedStatus(c) # AttachmentSyncStatus.LOCAL)
  /\ [][\A c \in AttCalls :
          /\ ~UploadInFlight(c) /\ UploadInFlight(c)' =>
               PersistedStatus(c)' = AttachmentSyncStatus.SYNCING
          /\ UploadInFlight(c) /\ UploadInFlight(c)' /\ PersistedStatus(c)' # PersistedStatus(c) =>
               OtherUploadActs(c)]_vars

\* a provider call of an upload is in flight while the persisted status of
\* its attachment is the outcome of another upload
UploadOvertaken ==
  \E c \in AttCalls :
    /\ UploadInFlight(c)
    /\ PersistedStatus(c) \in {AttachmentSyncStatus.SYNCED, AttachmentSyncStatus.ERROR}

\* the step settles invocation c
AttSettles(c) == attSettled' # <<>> /\ attSettled'[1].call = c

\* what invocation cr has asked of the Local Store and the provider so far
ProviderCalled(io) == \E k \in 1..Len(io) : io[k][1] = "provider.uploadAttachment"
ProviderSucceeded(io) ==
  \E k \in 1..Len(io) :
    io[k][1] = "updateAttachment" /\ io[k][2].syncStatus = AttachmentSyncStatus.SYNCED

\* C25 as stated: an uploadAttachment whose provider call succeeded ends
\* with the synced record persisted and returned; one whose provider call
\* failed ends with the error record persisted and the provider's failure
\* re-raised.
UploadOutcomeByProvider ==
  [][\A c \in AttCalls :
       LET cr == attCalls[c]
           a == cr.attachment
       IN cr.kind = "uploadAttachment" /\ AttSettles(c) /\ ProviderCalled(cr.io) =>
            IF ProviderSucceeded(cr.io)
              THEN /\ attSettled'[1].outcome = "returned"
                   /\ attSettled'[1].value = syncedAttachment(a, RemoteId(a.id))
                   /\ attMeta'[a.id] = syncedAttachment(a, RemoteId(a.id))
              ELSE /\ attSettled'[1].outcome = "threw"
                   /\ attSettled'[1].value = AttError(ProviderFailed)
                   /\ attMeta'[a.id] = errorAttachment(a, ProviderFailed)]_vars

\* C25: when provider.uploadAttachment succeeds and the metadata write that
\* follows succeeds, the synced record with the provider's remote
\* identifier is the last metadata persisted and is returned; when the
\* provider call or that write fails, the error record with the failure's
\* message is written and, if this write succeeds, it is the last metadata
\* persisted and the same failure is re-raised; if this write fails too, its
\* failure is raised and nothing more is persisted.
UploadOutcome ==
  [][\A c \in AttCalls :
       LET cr == attCalls[c]
           a == cr.attachment
       IN cr.kind = "uploadAttachment" /\ attCalls'[c] # cr =>
            CASE cr.pc = "provider.uploadAttachment" ->
                   \/ /\ attCalls'[c].pc = "updateAttachment synced"
                      /\ remoteBlobs'[a.id] = cr.blob
                   \/ /\ attCalls'[c].pc = "updateAttachment error"
                      /\ attCalls'[c].err = ProviderFailed
                      /\ remoteBlobs' = remoteBlobs
              [] cr.pc = "updateAttachment synced" ->
                   \/ /\ AttSettles(c)
                      /\ attSettled'[1].outcome = "returned"
                      /\ attSettled'[1].value = syncedAttachment(a, RemoteId(a.id))
                      /\ attMeta'[a.id] = syncedAttachment(a, RemoteId(a.id))
                   \/ /\ attCalls'[c].pc = "updateAttachment error"
                      /\ attCalls'[c].err = StoreFailed
                      /\ attMeta' = attMeta
              [] cr.pc = "updateAttachment error" ->
                   /\ AttSettles(c)
                   /\ attSettled'[1].outcome = "threw"
                   /\ \/ /\ attSettled'[1].value = AttError(cr.err)
                         /\ attMeta'[a.id].syncStatus = AttachmentSyncStatus.ERROR
                         /\ attMeta'[a.id].syncError = cr.err
                      \/ /\ attSettled'[1].value = AttError(StoreFailed)
                         /\ attMeta' = attMeta
              [] OTHER -> TRUE]_vars

\* an upload has thrown the Local Store's failure after the provider had
\* stored the blob, and the attachment is persisted as failed
UploadedButMarkedError ==
  /\ attSettled # <<>>
  /\ attSettled[1].kind = "uploadAttachment"
  /\ ProviderSucceeded(attSettled[1].io)
  /\ attSettled[1].outcome = "threw"
  /\ attSettled[1].value = AttError(StoreFailed)
  /\ attMeta[attSettled[1].arg.id].syncStatus = AttachmentSyncStatus.ERROR
  /\ remoteBlobs[attSettled[1].arg.id] = LocalBlob

\* C26: a downloadAttachment that has passed its checks and read the Local
\* Store calls the provider iff no blob is stored under the attachment's
\* id; on a hit it returns the stored blob without a provider call.
CacheFirstDownload ==
  [][\A c \in AttCalls :
       LET cr == attCalls[c]
       IN /\ cr.kind = "downloadAttachment"
          /\ cr.pc = "getAttachment"
          /\ attCalls'[c] # cr
          /\ ~(AttSettles(c) /\ attSettled'[1].value = AttError(StoreFailed))
          => IF blobs[cr.attachment.id] # Undefined
               THEN /\ AttSettles(c)
                    /\ attSettled'[1].outcome = "returned"
                    /\ attSettled'[1].value = blobs[cr.attachment.id]
               ELSE attCalls'[c].pc = "provider.downloadAttachment"]_vars

\* the half of it that holds: on a miss the provider is called with the
\* remoteId
DownloadOnMiss ==
  [][\A c \in AttCalls :
       LET cr == attCalls[c]
       IN /\ cr.kind = "downloadAttachment"
          /\ cr.pc = "getAttachment"
          /\ attCalls'[c] # cr
          /\ ~(AttSettles(c) /\ attSettled'[1].value = AttError(StoreFailed))
          /\ blobs[cr.attachment.id] = Undefined
          => /\ attCalls'[c].pc = "provider.downloadAttachment"
             /\ attCalls'[c].io[Len(attCalls'[c].io)] = <<"provider.downloadAttachment", cr.attachment.remoteId>>]_vars

\* the position in list of the attachment with this file name, 0 if none
PosOf(list, filename) ==
  IF \E j \in 1..Len(list) : list[j].filename = filename
    THEN CHOOSE j \in 1..Len(list) : list[j].filename = filename
    ELSE 0

\* syncAttachments does nothing for this attachment (lines 162, 169)
Skipped(a) ==
  /\ a.syncStatus # AttachmentSyncStatus.LOCAL
  /\ ~(a.syncStatus = AttachmentSyncStatus.SYNCED /\ a.remoteId # Null)

\* invocation c is a syncAttachments in flight
Syncing(c) == attCalls[c].kind = "syncAttachments"

RemoteListing(cr) ==
  IF cr.pc = "listRemoteAttachments"
    THEN (IF cr.listed THEN Listing(remoteBlobs, 1) ELSE <<>>)
    ELSE cr.remoteList

\* positions of the local attachments to upload: no remoteId and no entry
\* of the same id in the listing (line 228)
ToUpload(list, listing) ==
  {j \in 1..Len(list) : list[j].remoteId = Null /\ list[j].id \notin ListIds(listing)}

\* positions of the listing's entries to download: id absent from the local
\* list (line 246)
ToDownload(list, listing) ==
  {k \in 1..Len(listing) : listing[k].id \notin ListIds(list)}

\* reconcileAttachments invocation c returns in this step, without an error
ReconcileSucceeds(c) ==
  /\ attCalls[c].kind = "reconcileAttachments"
  /\ AttSettles(c)
  /\ attSettled'[1].value.errors = <<>>

\* C28: a reconcileAttachments that returns without errors has uploaded
\* every attachment of L without remoteId and without an entry of the same
\* id in R (its blob being stored locally), and downloaded every entry of R
\* whose id does not occur in L; uploaded and downloaded are the sizes of
\* these two sets.
ReconcileSets ==
  [][\A c \in AttCalls :
       LET cr == attCalls[c]
           R == RemoteListing(cr)
       IN ReconcileSucceeds(c)
            /\ (\A j \in ToUpload(cr.list, R) : blobs[cr.list[j].id] # Undefined)
          => /\ attSettled'[1].value.uploaded = Cardinality(ToUpload(cr.list, R))
             /\ attSettled'[1].value.downloaded = Cardinality(ToDownload(cr.list, R))]_vars

\* the download half of it, which holds
ReconcileDownloads ==
  [][\A c \in AttCalls :
       ReconcileSucceeds(c) =>
         attSettled'[1].value.downloaded
           = Cardinality(ToDownload(attCalls[c].list, RemoteListing(attCalls[c])))]_vars

\* the result of a reconcileAttachments whose listing failed
ListFailed ==
  [uploaded |-> 0, downloaded |-> 0,
   errors |-> <<[attachment |-> "list", error |-> ProviderFailed]>>]

\* the file names of the error entries
ErrorNames(errors) == {errors[k].attachment : k \in 1..Len(errors)}

ReconcileGoesOn ==
  /\ attSettled # <<>>
  /\ attSettled[1].kind = "reconcileAttachments"
  /\ attSettled[1].value.downloaded = 1
  /\ Len(attSettled[1].value.errors) = 1
  /\ attSettled[1].value.errors[1].attachment = Filename(1)

\* the provider.deleteAttachment calls among the I/O of an invocation
DeleteCalls(io) == {k \in 1..Len(io) : io[k][1] = "provider.deleteAttachment"}

\* C30: deleteRemoteAttachment calls provider.deleteAttachment, once and
\* with the attachment's remoteId, iff a provider is set, it supports delete
\* and the attachment has a remoteId; otherwise it returns at once without
\* error and without a provider call; it never calls the Local Store.
DeleteBestEffort ==
  /\ [][\A c \in AttCalls, a \in DirectArgs :
          CallDeleteRemoteAttachment(c, a) =>
            IF /\ attachmentProvider # Null
               /\ attachmentProvider.deleteAttachment
               /\ a.remoteId # Null
              THEN /\ attCalls'[c].pc = "provider.deleteAttachment"
                   /\ attCalls'[c].io = << <<"provider.deleteAttachment", a.remoteId>> >>
              ELSE /\ AttSettles(c)
                   /\ attSettled'[1].outcome = "returned"
                   /\ attSettled'[1].io = <<>>]_vars
  /\ [][\A c \in AttCalls :
          /\ attCalls[c].kind = "deleteRemoteAttachment" /\ attCalls'[c] # attCalls[c] =>
               /\ AttSettles(c)
               /\ attSettled'[1].io = attCalls[c].io
               /\ UNCHANGED <<attMeta, blobs>>
          /\ AttSettles(c) /\ attSettled'[1].kind = "deleteRemoteAttachment" =>
               /\ Cardinality(DeleteCalls(attSettled'[1].io)) = Len(attSettled'[1].io)
               /\ Len(attSettled'[1].io) <= 1]_vars

\* deleteRemoteAttachment has returned without calling a provider that
\* supports delete, the attachment having no remoteId
DeleteSkipped ==
  /\ attSettled # <<>>
  /\ attSettled[1].kind = "deleteRemoteAttachment"
  /\ attSettled[1].outcome = "returned"
  /\ attSettled[1].io = <<>>
  /\ attSettled[1].arg.remoteId = Null
  /\ attachmentProvider # Null
  /\ attachmentProvider.deleteAttachment

(* ----------------------- attachments, continued ----------------------- *)
\* C31: every metadata record persisted by the attachment engine has a
\* syncStatus among local, syncing, synced, error, and has a syncError only
\* when its syncStatus is error; also after the retry of a failed upload.
MetadataInvariant ==
  \A i \in AttIds :
    /\ attMeta[i].syncStatus \in {AttachmentSyncStatus.LOCAL, AttachmentSyncStatus.SYNCING,
                                  AttachmentSyncStatus.SYNCED, AttachmentSyncStatus.ERROR}
    /\ "syncError" \in DOMAIN attMeta[i] => attMeta[i].syncStatus = AttachmentSyncStatus.ERROR

\* the part of it that holds: the status is always one of the four
MetadataStatusInEnum ==
  \A i \in AttIds :
    attMeta[i].syncStatus \in {AttachmentSyncStatus.LOCAL, AttachmentSyncStatus.SYNCING,
                               AttachmentSyncStatus.SYNCED, AttachmentSyncStatus.ERROR}

\* the Local Store key of an operation an invocation has asked for; 0 for a
\* provider call
StoreKey(op) ==
  IF op[1] = "updateAttachment" THEN op[2].id
  ELSE IF op[1] \in {"getAttachment", "saveAttachment"} THEN op[2]
  ELSE 0

\* the I/O invocation c has made up to the end of the step
IoAfter(c) == IF AttSettles(c) THEN attSettled'[1].io ELSE attCalls'[c].io

LookupReturns(c) ==
  LET cr == attCalls[c]
      after == IF AttSettles(c) THEN attSettled'[1].value ELSE attCalls'[c].result
  IN /\ Syncing(c)
     /\ cr.pc \in {"getAttachment to upload", "getAttachment to download"}
     /\ attCalls'[c] # cr
     /\ ~(/\ Len(after.errors) > Len(cr.result.errors)
          /\ after.errors[Len(cr.result.errors) + 1].error = StoreFailed)

\* the step enters uploadAttachment / downloadAttachment for the attachment
\* in hand and gets to its first Local Store call
EntersUpload(c) == ~AttSettles(c) /\ attCalls'[c].pc = "updateAttachment syncing"
EntersDownload(c) == ~AttSettles(c) /\ attCalls'[c].pc = "getAttachment"

\* C33: syncAttachments, with a provider that has the methods, goes on to
\* upload an attachment iff its status is local and a blob is stored under
\* its id, and to download it iff its status is synced, it has a remoteId
\* and no blob is stored under its id.
SyncSelection ==
  [][\A c \in AttCalls :
       LET cr == attCalls[c]
           stored == blobs[cr.attachment.id] # Undefined
       IN LookupReturns(c) /\ attachmentProvider = FullProvider =>
            /\ cr.pc = "getAttachment to upload" => (EntersUpload(c) <=> stored)
            /\ cr.pc = "getAttachment to download" => (EntersDownload(c) <=> ~stored)]_vars

\* the part of it that holds: a blob is looked up for upload only for a
\* local attachment, and for download only for a synced one with remoteId
SyncSelectionByStatus ==
  \A c \in AttCalls :
    LET cr == attCalls[c]
    IN Syncing(c) =>
         /\ cr.pc = "getAttachment to upload" => cr.attachment.syncStatus = AttachmentSyncStatus.LOCAL
         /\ cr.pc = "getAttachment to download" =>
              /\ cr.attachment.syncStatus = AttachmentSyncStatus.SYNCED
              /\ cr.attachment.remoteId # Null

(* ------------------------- records, continued ------------------------- *)
Unparsable(r) == r.updatedAt \notin Times

\* the ids the cycle of call record cr has on both sides, with an updatedAt
\* that cannot be parsed on at least one
Incomparable(cr) ==
  {i \in SeqIds(cr.localIdeas) \cap SeqIds(cr.remoteIdeas) :
     Unparsable(MapGet(cr.localIdeas, i)) \/ Unparsable(MapGet(cr.remoteIdeas, i))}

Merges(c) == calls[c].pc = "fetch" /\ calls'[c].pc = "bulkSaveIdeas"

NoStuckSyncing == (syncStatus = SYNCING) ~> (syncStatus \in {IDLE, ERROR})

(* --------------------- the UI writes during a cycle ------------------- *)
Persists(c) == calls[c].pc = "bulkSaveIdeas" /\ calls'[c] # calls[c]

\* the records saveIdea has stored in a newer version since cycle c read them
SavedSinceRead(c) ==
  {i \in SeqIds(calls[c].localIdeas) :
     /\ ideas[i] # NoIdea
     /\ ideas[i].pendingSync
     /\ ideas[i].updatedAt > MapGet(calls[c].localIdeas, i).updatedAt}

\* C36: the persist step of a cycle leaves alone every record that saveIdea
\* has stored in a newer version since the cycle read the local records.
NoLostUpdate ==
  [][\A c \in Calls : Persists(c) => \A i \in SavedSinceRead(c) : ideas'[i] = ideas[i]]_vars

\* the part of it that holds: the persist step leaves alone every record
\* whose id is not in the merged set
PersistKeepsOthers ==
  [][\A c \in Calls :
       Persists(c) => \A i \in Ids \ SeqIds(calls[c].merged.local) : ideas'[i] = ideas[i]]_vars

(* ------------------------------ two devices --------------------------- *)
DeviceIds(d) == {i \in Ids : devices[d].ideas[i] # NoIdea}
RemoteIds == SeqIds(remote[TheProvider].ideas)

\* since the last edit every device has completed MaxCycles successful
\* cycles, one at a time and in turns, and is in none
EditsStopped ==
  \A d \in Devices : devices[d].pc = "idle" /\ devices[d].cycles = MaxCycles

\* C37: once the edits have stopped and each device has completed two more
\* successful cycles (here: one at a time, the devices taking turns), the
\* two Local Stores and the remote dataset hold the same ids, each at the
\* same updatedAt.
Convergence ==
  EditsStopped =>
    /\ DeviceIds(1) = DeviceIds(2)
    /\ DeviceIds(1) = RemoteIds
    /\ \A i \in DeviceIds(1) \cap DeviceIds(2) \cap RemoteIds :
         /\ devices[1].ideas[i].updatedAt = devices[2].ideas[i].updatedAt
         /\ devices[1].ideas[i].updatedAt = MapGet(remote[TheProvider].ideas, i).updatedAt

\* the part of it that holds: after such cycles every record of the remote
\* dataset is in both Local Stores
RemoteRecordsAdopted == EditsStopped => RemoteIds \subseteq DeviceIds(1) \cap DeviceIds(2)

(* ---------------------------- the pending flag ------------------------ *)
\* provider n's dataset holds a copy of record r that is not older
Confirmed(r, n) ==
  /\ r.id \in SeqIds(remote[n].ideas)
  /\ MapGet(remote[n].ideas, r.id).updatedAt >= r.updatedAt

\* C38: every record of the Local Store with pendingSync = false is in some
\* provider's dataset at an updatedAt that is not older.
PendingSyncInvariant ==
  \A i \in Ids :
    ideas[i] # NoIdea /\ ~ideas[i].pendingSync => \E n \in ProviderNames : Confirmed(ideas[i], n)

(* ------------------------------ deletions ----------------------------- *)
\* the ids cycle c fetched that were not among the local records it read
FetchedOnly(c) == SeqIds(calls[c].remoteIdeas) \ SeqIds(calls[c].localIdeas)

\* the persist step of cycle c stores every record that only the provider had
Readopts(c) ==
  Persists(c) /\ ~CycleFails(c) =>
    \A i \in FetchedOnly(c) : ideas'[i] = Adopted(MapGet(calls[c].remoteIdeas, i))

Pushes(c) == calls[c].pc = "push" /\ calls'[c] # calls[c]

\* C39: a record that the Local Store lacks (deleteIdea has removed it) and
\* the fetched dataset holds is stored again with pendingSync = false by the
\* persist step; and no step of a cycle removes an id from a provider's
\* dataset.
DeletionNotPropagated ==
  [][\A c \in Calls :
       /\ Readopts(c)
       /\ \A n \in ProviderNames : SeqIds(remote[n].ideas) \subseteq SeqIds(remote'[n].ideas)]_vars

\* the part of it that holds: the record is stored again, and a push
\* removes no id of the dataset that was fetched in the same cycle
FetchedIdsStay ==
  [][\A c \in Calls :
       /\ Readopts(c)
       /\ Pushes(c) => SeqIds(calls[c].remoteIdeas) \subseteq SeqIds(remote'[calls[c].provider].ideas)]_vars

(* ------------------------ the status after sync() --------------------- *)
\* sync(), invocation c, returns in this step with a result for at least one
\* provider, and no cycle is in flight afterwards
SyncReturns(c) ==
  /\ SettledIn(c)
  /\ SettlementOf(c).kind = "sync"
  /\ SettlementOf(c).pc = "returned"
  /\ SettlementOf(c).results # <<>>
  /\ \A d \in Calls : ~InCycle(calls'[d])

LastResult(c) == SettlementOf(c).results[Len(SettlementOf(c).results)]

\* C40: when sync() returns and no cycle is in flight, the status is error
\* if the attempt on the last provider failed and idle if it succeeded,
\* whatever the outcome for the providers before it.
StatusAfterSync ==
  [][\A c \in Calls :
       SyncReturns(c) => syncStatus' = IF LastResult(c).success THEN IDLE ELSE ERROR]_vars

\* sync() has returned success = false and the status is idle
FailedButIdle ==
  /\ syncStatus = IDLE
  /\ \E k \in 1..Len(settled) :
       /\ settled[k].kind = "sync" /\ settled[k].pc = "returned"
       /\ ~settled[k].result.success
  /\ \A d \in Calls : ~InCycle(calls[d])

\* the part of it that holds: the same, unless sync() found the status
\* syncing with no cycle in flight and was turned away for every provider
StatusAfterSyncOfCycles ==
  [][\A c \in Calls :
       SyncReturns(c) /\ syncStatus' # SYNCING =>
         syncStatus' = IF LastResult(c).success THEN IDLE ELSE ERROR]_vars

====
